---- MODULE Spec2Model ----
(***************************************************************************)
(* Dependency-graph node types (depsgraph_type_defines.c): outer ID and    *)
(* Group nodes, Data nodes, the cyclic-pair merge and the node-type        *)
(* registry, as a state machine over a heap of nodes and relations; the    *)
(* log context of clog.c (type filters, levels, log references and their   *)
(* types); and the OpenHMD device manager of GHOST_OpenHMDManager.cpp.     *)
(***************************************************************************)
EXTENDS Naturals, Integers, Sequences, FiniteSets, TLC

(* ---- bounds of the model ---- *)
MaxIDs == 4
MaxData == 1
MaxRels == 1
MaxRegs == 3
MaxOps == 7
MaxInner == 2
MaxLogOps == 4
MaxThreads == 2
MaxDevices == 3
MaxHmdOps == 4

(* ---- values ---- *)
Null == 0
IDs == 1..MaxIDs
\* node addresses lie above the identities, so that the two are never confused
\* one address for every ID node, Group, Data node and inner node, and one more for
\* a copy of every Data node and inner node
MaxNodes == MaxIDs + (MaxIDs \div 2) + 2 * (MaxData + MaxInner)
NodeIds == (MaxIDs + 1)..(MaxIDs + MaxNodes)
RelIds == 1..MaxRels

DEPSNODE_TYPE_OUTER_ID == "OUTER_ID"
DEPSNODE_TYPE_OUTER_GROUP == "OUTER_GROUP"
DEPSNODE_TYPE_DATA == "DATA"
\* the inner nodes that are kept in an outer node's `nodes` list
DEPSNODE_TYPE_INNER == "INNER"

Range(s) == {s[i] : i \in 1..Len(s)}

VARIABLES
  graph,      \* Depsgraph: [nodes: top-level node list, nodehash: ID -> node entries]
  dnode,      \* heap of DepsNode objects, by address
  rels,       \* heap of DepsRelation objects, by address
  registry,   \* _depsnode_typeinfo_registry: whether created, and the hash's entries
  status,     \* "running", or how the process ended
  nops,       \* number of graph operations made so far
  ret,        \* what the last registry call returned
  ctx,        \* CLogContext: the exclude and include filters, the log types
  clg_ref,    \* the static CLG_LogRef objects: identifier and type pointer
  thread,     \* the threads that call CLG_logref_init: where each one is
  hmd,        \* GHOST_OpenHMDManager: m_available, m_context, m_device, m_deviceIndex
  sys         \* GHOST_System and OpenHMD around it: devices, window, events, last return

vars == <<graph, dnode, rels, registry, status, nops, ret, ctx, clg_ref, thread,
         hmd, sys>>

(* ---- clog: the log context, its type filters and its log types ---- *)

\* strings are sequences of characters
Str_empty == <<>>
Str_star == <<"*">>
Str_foo == <<"f", "o", "o">>
Str_foo_glob == <<"f", "o", "o", ".", "*">>
Str_foo_bar == <<"f", "o", "o", ".", "b", "a", "r">>
Str_foo_bar_baz == <<"f", "o", "o", ".", "b", "a", "r", ".", "b", "a", "z">>
Str_foobar == <<"f", "o", "o", "b", "a", "r">>
Str_bar == <<"b", "a", "r">>
Str_foo_bar_bazz == <<"f", "o", "o", ".", "b", "a", "r", ".", "b", "a", "z", "z">>

\* sizeof(ty->identifier): the buffer of a log type holds `foo.bar.baz` and its
\* terminator and nothing longer
IdentifierSize == Len(Str_foo_bar_baz) + 1

\* the identifiers of the log references and the filters that callers hand over
Identifiers == {Str_foo, Str_foo_bar, Str_foo_bar_baz, Str_foobar, Str_bar}
TypeMatches == {Str_empty, Str_star, Str_foo, Str_foo_glob}

CLG_FLAG_USE == "CLG_FLAG_USE"

\* strcmp(a, b) == 0
STREQ(a, b) == a = b

\* strncmp(a, b, n) == 0: the first n characters, or all of them when the string
\* ends before
STREQLEN(a, b, n) ==
  SubSeq(a, 1, IF Len(a) < n THEN Len(a) ELSE n)
    = SubSeq(b, 1, IF Len(b) < n THEN Len(b) ELSE n)

\* mutant: `foo.*` is compared without its dot
clg_ctx_filter_check_no_dot(c, identifier) ==
  LET identifier_len == Len(identifier)
      Hit(match) ==
        LET len == Len(match)
        IN  \/ STREQ(match, Str_star)
            \/ len = identifier_len /\ STREQ(identifier, match)
            \/ /\ len >= 2
               /\ STREQLEN(<<".", "*">>, SubSeq(match, len - 1, len), 2)
               /\ identifier_len >= len - 2 /\ STREQLEN(identifier, match, len - 2)
      First(i) == {k \in 1..Len(c.filters[i]) : Hit(c.filters[i][k])}
  IN  IF First(0) # {} THEN FALSE
      ELSE IF First(1) # {} THEN TRUE
      ELSE FALSE

\* mutant: the include list is walked before the exclude list
clg_ctx_filter_check_include_first(c, identifier) ==
  LET identifier_len == Len(identifier)
      Hit(match) ==
        LET len == Len(match)
        IN  \/ STREQ(match, Str_star)
            \/ len = identifier_len /\ STREQ(identifier, match)
            \/ /\ len >= 2
               /\ STREQLEN(<<".", "*">>, SubSeq(match, len - 1, len), 2)
               /\ \/ identifier_len = len - 2 /\ STREQLEN(identifier, match, len - 2)
                  \/ identifier_len >= len - 1 /\ STREQLEN(identifier, match, len - 1)
      First(i) == {k \in 1..Len(c.filters[i]) : Hit(c.filters[i][k])}
  IN  IF First(1) # {} THEN TRUE
      ELSE FALSE

\* the first filter that matches decides, the exclude list (0) being walked before
\* the include list (1): the value returned is (bool)i
clg_ctx_filter_check(c, identifier) ==
  LET identifier_len == Len(identifier)
      Hit(match) ==
        LET len == Len(match)
        IN  \/ STREQ(match, Str_star)
            \/ len = identifier_len /\ STREQ(identifier, match)
            \/ /\ len >= 2
               /\ STREQLEN(<<".", "*">>, SubSeq(match, len - 1, len), 2)
               /\ \/ identifier_len = len - 2 /\ STREQLEN(identifier, match, len - 2)
                  \/ identifier_len >= len - 1 /\ STREQLEN(identifier, match, len - 1)
      First(i) == {k \in 1..Len(c.filters[i]) : Hit(c.filters[i][k])}
  IN  IF First(0) # {} THEN FALSE
      ELSE IF First(1) # {} THEN TRUE
      ELSE FALSE

\* the log type of that name, or an empty sequence for NULL
clg_ctx_type_find_by_name(c, identifier) ==
  SelectSeq(c.types, LAMBDA ty : STREQ(identifier, ty.identifier))

\* strncpy(dst, src, n) into a zeroed buffer: the first n characters of src
strncpy(src, n) == SubSeq(src, 1, IF Len(src) < n THEN Len(src) ELSE n)

\* the new type is a new object at the head of the list, named by what of the
\* identifier fits its buffer; it takes the context's default levels and is in use
\* if the filters let its name through
clg_ctx_type_register(c, identifier) ==
  [c EXCEPT !.types =
     <<[addr |-> Len(c.types) + 1,
        identifier |-> strncpy(identifier, IdentifierSize - 1),
        level |-> c.default_type.level,
        severity_level |-> c.default_type.severity_level,
        flag |-> IF clg_ctx_filter_check(c, strncpy(identifier, IdentifierSize - 1))
                 THEN {CLG_FLAG_USE} ELSE {}]>> \o @]

\* the new filter is the head of its list; an empty match is dropped
clg_ctx_type_filter_append(flt_list, type_match) ==
  IF Len(type_match) = 0 THEN flt_list ELSE <<type_match>> \o flt_list

CLG_ctx_type_filter_exclude(c, type_match) ==
  [c EXCEPT !.filters[0] = clg_ctx_type_filter_append(@, type_match)]

CLG_ctx_type_filter_include(c, type_match) ==
  [c EXCEPT !.filters[1] = clg_ctx_type_filter_append(@, type_match)]

CLG_ctx_type_filters_clear(c) ==
  [c EXCEPT !.filters = [i \in {0, 1} |-> <<>>]]

\* enable all loggers by default
CLG_DEFAULT_LOG_TYPE_FILTER == Str_star

CLG_SEVERITY_INFO == "CLG_SEVERITY_INFO"
CLG_SEVERITY_WARN == "CLG_SEVERITY_WARN"
CLG_SEVERITY_ERROR == "CLG_SEVERITY_ERROR"
CLG_DEFAULT_SEVERITY == CLG_SEVERITY_INFO
CLG_DEFAULT_LEVEL == 0

CLG_ctx_init ==
  CLG_ctx_type_filter_include(
    [filters |-> [i \in {0, 1} |-> <<>>],
     types |-> <<>>,
     types_lock |-> Null,
     default_type |-> [level |-> CLG_DEFAULT_LEVEL,
                       severity_level |-> CLG_DEFAULT_SEVERITY]],
    CLG_DEFAULT_LOG_TYPE_FILTER)

\* a log reference of that identifier is used for the first time
CLG_logref_init(c, identifier) ==
  IF clg_ctx_type_find_by_name(c, identifier) = <<>>
  THEN clg_ctx_type_register(c, identifier)
  ELSE c

CLG_type_filter_include ==
  /\ nops < MaxLogOps
  /\ nops' = nops + 1
  /\ \E type_match \in TypeMatches : ctx' = CLG_ctx_type_filter_include(ctx, type_match)
  /\ UNCHANGED <<hmd, sys, graph, dnode, rels, registry, status, ret, clg_ref, thread>>

CLG_type_filter_exclude ==
  /\ nops < MaxLogOps
  /\ nops' = nops + 1
  /\ \E type_match \in TypeMatches : ctx' = CLG_ctx_type_filter_exclude(ctx, type_match)
  /\ UNCHANGED <<hmd, sys, graph, dnode, rels, registry, status, ret, clg_ref, thread>>

CLG_type_filters_clear ==
  /\ nops < MaxLogOps
  /\ nops' = nops + 1
  /\ ctx' = CLG_ctx_type_filters_clear(ctx)
  /\ UNCHANGED <<hmd, sys, graph, dnode, rels, registry, status, ret, clg_ref, thread>>

LogrefInit ==
  /\ nops < MaxLogOps
  /\ nops' = nops + 1
  /\ \E identifier \in Identifiers : ctx' = CLG_logref_init(ctx, identifier)
  /\ UNCHANGED <<hmd, sys, graph, dnode, rels, registry, status, ret, clg_ref, thread>>

NextLog ==
  \/ CLG_type_filter_include
  \/ CLG_type_filter_exclude
  \/ CLG_type_filters_clear
  \/ LogrefInit

\* mutant: the default is set and the log types that exist are left as they are
CLG_ctx_level_set_default_only(c, level) ==
  [c EXCEPT !.default_type.level = level]

CLG_ctx_severity_level_set(c, level) ==
  [c EXCEPT !.default_type.severity_level = level,
            !.types = [i \in 1..Len(c.types) |->
                         [c.types[i] EXCEPT !.severity_level = level]]]

CLG_ctx_level_set(c, level) ==
  [c EXCEPT !.default_type.level = level,
            !.types = [i \in 1..Len(c.types) |-> [c.types[i] EXCEPT !.level = level]]]

\* the levels and the severities that callers set
Levels == {0, 1, 2}
Severities == {CLG_SEVERITY_INFO, CLG_SEVERITY_WARN, CLG_SEVERITY_ERROR}

CLG_level_set ==
  /\ nops < MaxLogOps
  /\ nops' = nops + 1
  /\ \E level \in Levels : ctx' = CLG_ctx_level_set(ctx, level)
  /\ UNCHANGED <<hmd, sys, graph, dnode, rels, registry, status, ret, clg_ref, thread>>

CLG_severity_level_set ==
  /\ nops < MaxLogOps
  /\ nops' = nops + 1
  /\ \E level \in Severities : ctx' = CLG_ctx_severity_level_set(ctx, level)
  /\ UNCHANGED <<hmd, sys, graph, dnode, rels, registry, status, ret, clg_ref, thread>>

NextLogLevel ==
  \/ CLG_level_set
  \/ CLG_severity_level_set
  \/ LogrefInit

(* ---- clog: CLG_logref_init called from several threads ---- *)

\* the static log references of the program: two of one name, one whose name just
\* fits a log type's buffer and one whose name is a character too long for it
LogRefs == 1..4
RefIdentifier == <<Str_foo, Str_foo, Str_foo_bar_baz, Str_foo_bar_bazz>>
Threads == 1..MaxThreads

\* mutant: built without WITH_CLOG_PTHREADS, nothing is waited for
pthread_mutex_lock_free_unlocked(c) == TRUE

\* pthread_mutex_lock(&g_ctx->types_lock) returns when nobody holds the lock
pthread_mutex_lock_free(c) == c.types_lock = Null

\* the address of the log type of that name, or Null
TypeAddr(c, identifier) ==
  IF clg_ctx_type_find_by_name(c, identifier) = <<>> THEN Null
  ELSE clg_ctx_type_find_by_name(c, identifier)[1].addr

\* a thread comes to use a log reference and calls CLG_logref_init
LogrefInitCall(t) ==
  /\ thread[t].pc = "idle"
  /\ \E r \in LogRefs : thread' = [thread EXCEPT ![t] = [pc |-> "lock", ref |-> r,
                                                          clg_ty |-> Null]]
  /\ UNCHANGED <<hmd, sys, graph, dnode, rels, registry, status, nops, ret, ctx, clg_ref>>

\* pthread_mutex_lock, and the test of clg_ref->type
LogrefInitLock(t) ==
  /\ thread[t].pc = "lock"
  /\ pthread_mutex_lock_free(ctx)
  /\ ctx' = [ctx EXCEPT !.types_lock = t]
  /\ thread' = [thread EXCEPT ![t].pc = IF clg_ref[thread[t].ref].type = Null
                                         THEN "find" ELSE "unlock"]
  /\ UNCHANGED <<hmd, sys, graph, dnode, rels, registry, status, nops, ret, clg_ref>>

\* clg_ty = clg_ctx_type_find_by_name(g_ctx, clg_ref->identifier)
LogrefInitFind(t) ==
  /\ thread[t].pc = "find"
  /\ thread' = [thread EXCEPT
                  ![t].clg_ty = TypeAddr(ctx, clg_ref[thread[t].ref].identifier),
                  ![t].pc = IF TypeAddr(ctx, clg_ref[thread[t].ref].identifier) = Null
                            THEN "register" ELSE "cas"]
  /\ UNCHANGED <<hmd, sys, graph, dnode, rels, registry, status, nops, ret, ctx, clg_ref>>

\* clg_ty = clg_ctx_type_register(g_ctx, clg_ref->identifier)
LogrefInitRegister(t) ==
  /\ thread[t].pc = "register"
  /\ ctx' = clg_ctx_type_register(ctx, clg_ref[thread[t].ref].identifier)
  /\ thread' = [thread EXCEPT ![t].clg_ty = ctx'.types[1].addr, ![t].pc = "cas"]
  /\ UNCHANGED <<hmd, sys, graph, dnode, rels, registry, status, nops, ret, clg_ref>>

\* atomic_cas_ptr(&clg_ref->type, clg_ref->type, clg_ty): the value compared with
\* is the one just read, so the store is made
LogrefInitCas(t) ==
  /\ thread[t].pc = "cas"
  /\ clg_ref' = [clg_ref EXCEPT ![thread[t].ref].type = thread[t].clg_ty]
  /\ thread' = [thread EXCEPT ![t].pc = "unlock"]
  /\ UNCHANGED <<hmd, sys, graph, dnode, rels, registry, status, nops, ret, ctx>>

\* pthread_mutex_unlock, and the return
LogrefInitUnlock(t) ==
  /\ thread[t].pc = "unlock"
  /\ ctx' = [ctx EXCEPT !.types_lock = IF @ = t THEN Null ELSE @]
  /\ thread' = [thread EXCEPT ![t] = [pc |-> "idle", ref |-> Null, clg_ty |-> Null]]
  /\ UNCHANGED <<hmd, sys, graph, dnode, rels, registry, status, nops, ret, clg_ref>>

NextLogThreads ==
  \E t \in Threads :
    \/ LogrefInitCall(t)
    \/ LogrefInitLock(t)
    \/ LogrefInitFind(t)
    \/ LogrefInitRegister(t)
    \/ LogrefInitCas(t)
    \/ LogrefInitUnlock(t)

(* ---- GHOST_OpenHMDManager (GHOST_OpenHMDManager.cpp) ---- *)

\* what ohmd_ctx_create returns when it succeeds, and the active window
OHMD_CONTEXT == 1
ActiveWindow == 1

\* the device handle that ohmd_list_open_device gives for that index; no handle of
\* an index that callers pass is the null pointer
DeviceHandle(index) == index + 2

\* the vendor and the product name of the device of that index (ohmd_list_gets);
\* devices two places apart have the same names
Vendors == <<"OpenHMD", "Oculus VR, Inc.">>
Products == <<"Dummy Device", "Rift (Devkit)">>
ohmd_list_gets(index) ==
  [vendor |-> Vendors[(index % 2) + 1], product |-> Products[(index % 2) + 1]]

\* the indices that callers pass: one below the first, and up to one past the last
Indices == (0 - 1)..MaxDevices

\* ohmd_ctx_create: a context, or NULL
ohmd_ctx_create(s) == IF s.ctx_created THEN OHMD_CONTEXT ELSE Null

\* ohmd_ctx_probe: the number of devices found
ohmd_ctx_probe(s) == s.num_devices

\* ohmd_list_open_device: a handle of the device, or NULL when it is not opened
ohmd_list_open_device(s, index, opened) ==
  IF opened THEN DeviceHandle(index) ELSE Null

\* ohmd_device_getf: success, a negative error code, or a dereference of a null
\* device pointer, where anything may follow
ohmd_device_getf(device) ==
  IF device = Null THEN {"ok", "error", "null_deref"} ELSE {"ok", "error"}

Returned(s, op, val) == [s EXCEPT !.ret = [op |-> op, val |-> val]]

\* mutant: the context that found no device is destroyed and its pointer is kept
GHOST_OpenHMDManager_keep_context(s, opened) ==
  LET m_context == ohmd_ctx_create(s)
  IN  IF m_context # Null /\ ohmd_ctx_probe(s) > 0
      THEN [m_available |-> TRUE, m_context |-> m_context,
            m_device |-> ohmd_list_open_device(s, 0, opened), m_deviceIndex |-> 0]
      ELSE [m_available |-> FALSE, m_context |-> m_context,
            m_device |-> Null, m_deviceIndex |-> 0 - 1]

\* the constructor
GHOST_OpenHMDManager(s, opened) ==
  LET m_context == ohmd_ctx_create(s)
  IN  IF m_context # Null
      THEN IF ohmd_ctx_probe(s) > 0
           THEN [m_available |-> TRUE, m_context |-> m_context,
                 m_device |-> ohmd_list_open_device(s, 0, opened), m_deviceIndex |-> 0]
           ELSE [m_available |-> FALSE, m_context |-> Null,
                 m_device |-> Null, m_deviceIndex |-> 0 - 1]
      ELSE [m_available |-> FALSE, m_context |-> Null,
            m_device |-> Null, m_deviceIndex |-> 0 - 1]

\* the destructor
GHOST_OpenHMDManager_dtor(h) ==
  IF h.m_available
  THEN [h EXCEPT !.m_context = Null, !.m_device = Null, !.m_available = FALSE]
  ELSE h

getRotationQuat(h, getf) ==
  IF ~h.m_available THEN FALSE
  ELSE IF getf = "error" THEN FALSE
  ELSE TRUE

\* processEvents; getf is what ohmd_device_getf does in getRotationQuat
processEvents(h, s, getf) ==
  IF h.m_available
  THEN IF s.window = Null
       THEN [hmd |-> h, sys |-> Returned(s, "processEvents", FALSE), status |-> "running"]
       ELSE LET event == Cardinality(s.allocated) + 1
                s1 == [s EXCEPT !.allocated = @ \cup {event}]
            IN  IF getf = "null_deref"
                THEN [hmd |-> h, sys |-> s1, status |-> "null_deref"]
                ELSE IF ~getRotationQuat(h, getf)
                THEN [hmd |-> h, sys |-> Returned(s1, "processEvents", FALSE),
                      status |-> "running"]
                ELSE [hmd |-> h,
                      sys |-> Returned([s1 EXCEPT !.events = Append(@, event)],
                                       "processEvents", TRUE),
                      status |-> "running"]
  ELSE [hmd |-> h, sys |-> Returned(s, "processEvents", FALSE), status |-> "running"]

\* setDevice(int index)
setDevice(h, s, index, opened) ==
  IF ~h.m_available
  THEN [hmd |-> h, sys |-> Returned(s, "setDevice", FALSE)]
  ELSE IF index >= ohmd_ctx_probe(s)
  THEN [hmd |-> h, sys |-> Returned(s, "setDevice", FALSE)]
  ELSE [hmd |-> [h EXCEPT !.m_deviceIndex = index,
                          !.m_device = ohmd_list_open_device(s, index, opened)],
        sys |-> Returned(s, "setDevice", TRUE)]

\* setDevice(requested_vendor_name, requested_device_name)
setDevice_name(h, s, requested_vendor_name, requested_device_name, opened) ==
  IF ~h.m_available
  THEN [hmd |-> h, sys |-> Returned(s, "setDevice_name", FALSE)]
  ELSE LET found == {i \in 0..(ohmd_ctx_probe(s) - 1) :
                       /\ ohmd_list_gets(i).product = requested_device_name
                       /\ ohmd_list_gets(i).vendor = requested_vendor_name}
           first == CHOOSE i \in found : \A j \in found : i <= j
           success == setDevice(h, s, first, opened)
       IN  IF found = {}
           THEN [hmd |-> h, sys |-> Returned(s, "setDevice_name", FALSE)]
           ELSE [hmd |-> success.hmd,
                 sys |-> Returned(success.sys, "setDevice_name", success.sys.ret.val)]

\* the system and the library as the constructor finds them
SysInit(ctx_created, num_devices, window) ==
  [ctx_created |-> ctx_created, num_devices |-> num_devices, window |-> window,
   events |-> <<>>, allocated |-> {}, alive |-> TRUE,
   ret |-> [op |-> "none", val |-> FALSE]]

ProcessEvents ==
  /\ sys.alive /\ status = "running"
  /\ nops < MaxHmdOps
  /\ nops' = nops + 1
  /\ \E getf \in ohmd_device_getf(hmd.m_device) :
       LET r == processEvents(hmd, sys, getf)
       IN  hmd' = r.hmd /\ sys' = r.sys /\ status' = r.status
  /\ UNCHANGED <<graph, dnode, rels, registry, ret, ctx, clg_ref, thread>>

SetDevice ==
  /\ sys.alive /\ status = "running"
  /\ nops < MaxHmdOps
  /\ nops' = nops + 1
  /\ \E index \in Indices, opened \in BOOLEAN :
       LET r == setDevice(hmd, sys, index, opened)
       IN  hmd' = r.hmd /\ sys' = r.sys
  /\ UNCHANGED <<graph, dnode, rels, registry, status, ret, ctx, clg_ref, thread>>

SetDeviceName ==
  /\ sys.alive /\ status = "running"
  /\ nops < MaxHmdOps
  /\ nops' = nops + 1
  /\ \E v \in 1..Len(Vendors), p \in 1..Len(Products), opened \in BOOLEAN :
       LET r == setDevice_name(hmd, sys, Vendors[v], Products[p], opened)
       IN  hmd' = r.hmd /\ sys' = r.sys
  /\ UNCHANGED <<graph, dnode, rels, registry, status, ret, ctx, clg_ref, thread>>

\* a window becomes the active one, or the active window is left
WindowChange ==
  /\ sys.alive /\ status = "running"
  /\ sys' = [sys EXCEPT !.window = IF @ = Null THEN ActiveWindow ELSE Null]
  /\ UNCHANGED <<graph, dnode, rels, registry, status, nops, ret, ctx, clg_ref, thread,
                 hmd>>

Destroy ==
  /\ sys.alive /\ status = "running"
  /\ hmd' = GHOST_OpenHMDManager_dtor(hmd)
  /\ sys' = [sys EXCEPT !.alive = FALSE]
  /\ UNCHANGED <<graph, dnode, rels, registry, status, nops, ret, ctx, clg_ref, thread>>

NextHMD ==
  \/ ProcessEvents
  \/ SetDevice
  \/ SetDeviceName
  \/ WindowChange
  \/ Destroy

(* ---- list and hash primitives (BLI_listbase, BLI_ghash) ---- *)

BLI_addtail(list, x) == Append(list, x)

BLI_remlink(list, x) ==
  LET Keep(e) == e # x IN SelectSeq(list, Keep)

\* the entries are kept newest first: an insert makes a new entry and does not
\* look for an older one with the same key; lookup and remove take the first match
BLI_ghash_insert(gh, key, val) == <<<<key, val>>>> \o gh

GhashFirst(gh, key) ==
  LET idx == {i \in 1..Len(gh) : gh[i][1] = key}
  IN  IF idx = {} THEN 0 ELSE CHOOSE i \in idx : \A j \in idx : i <= j

BLI_ghash_lookup(gh, key) ==
  IF GhashFirst(gh, key) = 0 THEN Null ELSE gh[GhashFirst(gh, key)][2]

BLI_ghash_remove(gh, key) ==
  LET k == GhashFirst(gh, key)
  IN  IF k = 0 THEN gh ELSE SubSeq(gh, 1, k - 1) \o SubSeq(gh, k + 1, Len(gh))

BLI_ghash_haskey(gh, key) == GhashFirst(gh, key) # 0

(* ---- the heap ---- *)

NoNode ==
  [st |-> "unalloc", type |-> "NONE", id |-> Null, id_blocks |-> <<>>,
   inlinks |-> <<>>, outlinks |-> <<>>, subdata |-> <<>>, nodes |-> <<>>,
   owner |-> Null,
   refs_at_free |-> {}]   \* what still referred to the node when it was freed

NoRel == [alloc |-> FALSE, from |-> Null, to |-> Null]

\* the state the operations work on, as one value
World == [graph |-> graph, dnode |-> dnode, rels |-> rels]

\* each node type is allocated from a pool of addresses of its own
Pool(type) ==
  CASE type = DEPSNODE_TYPE_OUTER_ID -> {n \in NodeIds : n <= 2 * MaxIDs}
    [] type = DEPSNODE_TYPE_OUTER_GROUP ->
         {n \in NodeIds : n > 2 * MaxIDs /\ n <= 2 * MaxIDs + (MaxIDs \div 2)}
    [] type = DEPSNODE_TYPE_DATA ->
         {n \in NodeIds : n > 2 * MaxIDs + (MaxIDs \div 2)
                           /\ n <= 2 * MaxIDs + (MaxIDs \div 2) + MaxData}
    [] type = DEPSNODE_TYPE_INNER ->
         {n \in NodeIds : n > 2 * MaxIDs + (MaxIDs \div 2) + MaxData
                           /\ n <= 2 * MaxIDs + (MaxIDs \div 2) + MaxData + MaxInner}
    [] OTHER -> {n \in NodeIds : n > 2 * MaxIDs + (MaxIDs \div 2) + MaxData + MaxInner}

FreshNode(w, type) == CHOOSE n \in Pool(type) :
  /\ w.dnode[n].st = "unalloc"
  /\ \A m \in Pool(type) : w.dnode[m].st = "unalloc" => n <= m

\* allocates a zeroed node of the given type at FreshNode(w, type)
DEG_create_node(w, type) ==
  [w EXCEPT !.dnode[FreshNode(w, type)] = [NoNode EXCEPT !.st = "live", !.type = type]]

\* the kinds of reference to node that the graph holds
ReferencesTo(w, node) ==
  {k \in {"relation", "graph.nodes", "nodehash", "owner"} :
     \/ k = "relation"
          /\ \E r \in RelIds : w.rels[r].alloc /\ node \in {w.rels[r].from, w.rels[r].to}
     \/ k = "graph.nodes" /\ node \in Range(w.graph.nodes)
     \/ k = "nodehash"
          /\ \E i \in 1..Len(w.graph.nodehash) : w.graph.nodehash[i][2] = node
     \/ k = "owner" /\ \E n \in NodeIds : w.dnode[n].owner = node}

\* releases the node's own storage; what it held is left as it was. The references
\* that the graph still holds to the node at this moment are noted on the node.
DEG_free_node(w, node) ==
  [w EXCEPT !.dnode[node].st = "freed",
            !.dnode[node].refs_at_free = ReferencesTo(w, node)]

(* ---- Outer nodes: ID node ---- *)

\* mutant: the node is linked at the head of the list
dnti_outer_id__add_to_graph_head(w, node, id) ==
  [w EXCEPT !.graph.nodehash = BLI_ghash_insert(@, id, node),
            !.graph.nodes = <<node>> \o @]

dnti_outer_id__add_to_graph(w, node, id) ==
  [w EXCEPT !.graph.nodehash = BLI_ghash_insert(@, id, node),
            !.graph.nodes = BLI_addtail(@, node)]

\* the hash key removed is the node's own ID
dnti_outer_id__remove_from_graph(w, node) ==
  [w EXCEPT !.graph.nodehash = BLI_ghash_remove(@, w.dnode[node].id),
            !.graph.nodes = BLI_remlink(@, node)]

(* ---- Outer nodes: Group node ---- *)

RECURSIVE GhashInsertAll(_, _, _)
\* for (ld = id_blocks.first; ld; ld = ld->next) BLI_ghash_insert(gh, ld->data, val)
GhashInsertAll(gh, ids, val) ==
  IF ids = <<>> THEN gh
  ELSE GhashInsertAll(BLI_ghash_insert(gh, Head(ids), val), Tail(ids), val)

RECURSIVE GhashRemoveAll(_, _)
\* for (ld = id_blocks.first; ld; ld = ld->next) BLI_ghash_remove(gh, ld->data)
GhashRemoveAll(gh, ids) ==
  IF ids = <<>> THEN gh
  ELSE GhashRemoveAll(BLI_ghash_remove(gh, Head(ids)), Tail(ids))

\* mutant: the group is linked, its identities are not indexed
dnti_outer_group__add_to_graph_nohash(w, node) ==
  [w EXCEPT !.graph.nodes = BLI_addtail(@, node)]

\* mutant: the group is linked at the head of graph.nodes
dnti_outer_group__add_to_graph_head(w, node) ==
  [w EXCEPT !.graph.nodes = <<node>> \o @,
            !.graph.nodehash = GhashInsertAll(@, w.dnode[node].id_blocks, node)]

dnti_outer_group__add_to_graph(w, node) ==
  [w EXCEPT !.graph.nodes = BLI_addtail(@, node),
            !.graph.nodehash = GhashInsertAll(@, w.dnode[node].id_blocks, node)]

\* mutant: only the first of the group's identities is taken out of nodehash
dnti_outer_group__remove_from_graph_first(w, node) ==
  [w EXCEPT !.graph.nodes = BLI_remlink(@, node),
            !.graph.nodehash = GhashRemoveAll(@, SubSeq(w.dnode[node].id_blocks, 1, 1))]

dnti_outer_group__remove_from_graph(w, node) ==
  [w EXCEPT !.graph.nodes = BLI_remlink(@, node),
            !.graph.nodehash = GhashRemoveAll(@, w.dnode[node].id_blocks)]

(* ---- Depsgraph container: dispatch on the node's type ---- *)

DEG_add_node(w, node) ==
  CASE w.dnode[node].type = DEPSNODE_TYPE_OUTER_ID ->
         dnti_outer_id__add_to_graph(w, node, w.dnode[node].id)
    [] w.dnode[node].type = DEPSNODE_TYPE_OUTER_GROUP ->
         dnti_outer_group__add_to_graph(w, node)
    [] OTHER -> w

DEG_remove_node(w, node) ==
  CASE w.dnode[node].type = DEPSNODE_TYPE_OUTER_ID ->
         dnti_outer_id__remove_from_graph(w, node)
    [] w.dnode[node].type = DEPSNODE_TYPE_OUTER_GROUP ->
         dnti_outer_group__remove_from_graph(w, node)
    [] OTHER -> w

\* the outer node (ID or Group) that represents id, or Null
DEG_find_node(w, id) == BLI_ghash_lookup(w.graph.nodehash, id)

(* ---- Data node ---- *)

\* mutant: under a Group the node goes to the nodes list
dnti_data__add_to_graph_nodes(w, node, id) ==
  LET id_node == DEG_find_node(w, id)
      w1 == [w EXCEPT !.dnode[node].owner = id_node]
  IN  IF w1.dnode[id_node].type = DEPSNODE_TYPE_OUTER_ID
      THEN [w1 EXCEPT !.dnode[id_node].subdata = BLI_addtail(@, node)]
      ELSE [w1 EXCEPT !.dnode[id_node].nodes = BLI_addtail(@, node)]

\* the owner is found (id_node != NULL): the node is attached under it, in the
\* subdata list of the ID node or of the Group node
dnti_data__add_to_graph(w, node, id) ==
  LET id_node == DEG_find_node(w, id)
      w1 == [w EXCEPT !.dnode[node].owner = id_node]
  IN  IF w1.dnode[id_node].type = DEPSNODE_TYPE_OUTER_ID
      THEN [w1 EXCEPT !.dnode[id_node].subdata = BLI_addtail(@, node)]
      ELSE [w1 EXCEPT !.dnode[id_node].subdata = BLI_addtail(@, node)]

\* no owner is found (id_node == NULL). BLI_assert stops the call only in a build
\* that aborts on assertions ("assert_abort"); any other build goes on to write
\* node->owner and to read id_node->type through the null pointer ("null_deref"),
\* which is undefined. Either way nothing more is said of the program: no
\* operation follows.
NullOwnerOutcomes == {"assert_abort", "null_deref"}

dnti_data__add_to_graph_null(w, node, outcome) ==
  IF outcome = "assert_abort" THEN w
  ELSE [w EXCEPT !.dnode[node].owner = Null]

(* ---- Internal API ---- *)

\* mutant: nodehash is updated whether or not a graph is given
deg_group_add_id_ref_always(w, toGraph, group, id) ==
  [w EXCEPT !.dnode[group].id_blocks = BLI_addtail(@, id),
            !.graph.nodehash = BLI_ghash_insert(@, id, group)]

\* toGraph is (graph != NULL)
deg_group_add_id_ref(w, toGraph, group, id) ==
  LET w1 == [w EXCEPT !.dnode[group].id_blocks = BLI_addtail(@, id)]
  IN  IF toGraph
      THEN [w1 EXCEPT !.graph.nodehash = BLI_ghash_insert(@, id, group)]
      ELSE w1

\* mutant: only the relations' `to` ends are redirected
transfer_nodegraph_to_group_to_only(w, group, src) ==
  LET s == w.dnode[src]
      r1 == [r \in RelIds |->
               IF r \in Range(s.inlinks) /\ w.rels[r].to = src
               THEN [w.rels[r] EXCEPT !.to = group] ELSE w.rels[r]]
      d1 == [n \in NodeIds |->
               IF n \in Range(s.subdata)
               THEN [w.dnode[n] EXCEPT !.owner = group] ELSE w.dnode[n]]
      d3 == [d1 EXCEPT ![group].inlinks = @ \o s.inlinks,
                       ![group].outlinks = @ \o s.outlinks,
                       ![group].subdata = @ \o s.subdata,
                       ![group].nodes = @ \o s.nodes]
      d4 == [d3 EXCEPT ![src].inlinks = <<>>,
                       ![src].outlinks = <<>>,
                       ![src].subdata = <<>>,
                       ![src].nodes = <<>>]
  IN  [w EXCEPT !.rels = r1, !.dnode = d4]

\* mutant: the subdata nodes keep their old owner
transfer_nodegraph_to_group_keep_owner(w, group, src) ==
  LET s == w.dnode[src]
      r1 == [r \in RelIds |->
               IF r \in Range(s.inlinks) /\ w.rels[r].to = src
               THEN [w.rels[r] EXCEPT !.to = group] ELSE w.rels[r]]
      r2 == [r \in RelIds |->
               IF r \in Range(s.outlinks) /\ r1[r].from = src
               THEN [r1[r] EXCEPT !.from = group] ELSE r1[r]]
      d3 == [w.dnode EXCEPT ![group].inlinks = @ \o s.inlinks,
                            ![group].outlinks = @ \o s.outlinks,
                            ![group].subdata = @ \o s.subdata,
                            ![group].nodes = @ \o s.nodes]
      d4 == [d3 EXCEPT ![src].inlinks = <<>>,
                       ![src].outlinks = <<>>,
                       ![src].subdata = <<>>,
                       ![src].nodes = <<>>]
  IN  [w EXCEPT !.rels = r2, !.dnode = d4]

\* mutant: the `from` end of every relation is redirected, src's or not
transfer_nodegraph_to_group_all_from(w, group, src) ==
  LET s == w.dnode[src]
      r1 == [r \in RelIds |->
               IF r \in Range(s.inlinks) /\ w.rels[r].to = src
               THEN [w.rels[r] EXCEPT !.to = group] ELSE w.rels[r]]
      r2 == [r \in RelIds |->
               IF r1[r].alloc THEN [r1[r] EXCEPT !.from = group] ELSE r1[r]]
      d1 == [n \in NodeIds |->
               IF n \in Range(s.subdata)
               THEN [w.dnode[n] EXCEPT !.owner = group] ELSE w.dnode[n]]
      d3 == [d1 EXCEPT ![group].inlinks = @ \o s.inlinks,
                       ![group].outlinks = @ \o s.outlinks,
                       ![group].subdata = @ \o s.subdata,
                       ![group].nodes = @ \o s.nodes]
      d4 == [d3 EXCEPT ![src].inlinks = <<>>,
                       ![src].outlinks = <<>>,
                       ![src].subdata = <<>>,
                       ![src].nodes = <<>>]
  IN  [w EXCEPT !.rels = r2, !.dnode = d4]

\* mutant: only the `from` end of src's relations is redirected
transfer_nodegraph_to_group_from_only(w, group, src) ==
  LET s == w.dnode[src]
      r2 == [r \in RelIds |->
               IF r \in Range(s.outlinks) /\ w.rels[r].from = src
               THEN [w.rels[r] EXCEPT !.from = group] ELSE w.rels[r]]
      d1 == [n \in NodeIds |->
               IF n \in Range(s.subdata)
               THEN [w.dnode[n] EXCEPT !.owner = group] ELSE w.dnode[n]]
      d2 == [n \in NodeIds |->
               IF n \in Range(s.nodes) /\ d1[n].owner = src
               THEN [d1[n] EXCEPT !.owner = group] ELSE d1[n]]
      d3 == [d2 EXCEPT ![group].inlinks = @ \o s.inlinks,
                       ![group].outlinks = @ \o s.outlinks,
                       ![group].subdata = @ \o s.subdata,
                       ![group].nodes = @ \o s.nodes]
      d4 == [d3 EXCEPT ![src].inlinks = <<>>,
                       ![src].outlinks = <<>>,
                       ![src].subdata = <<>>,
                       ![src].nodes = <<>>]
  IN  [w EXCEPT !.rels = r2, !.dnode = d4]

\* mutant: every node of src's nodes list gets the group for owner
transfer_nodegraph_to_group_all_owner(w, group, src) ==
  LET s == w.dnode[src]
      r1 == [r \in RelIds |->
               IF r \in Range(s.inlinks) /\ w.rels[r].to = src
               THEN [w.rels[r] EXCEPT !.to = group] ELSE w.rels[r]]
      r2 == [r \in RelIds |->
               IF r \in Range(s.outlinks) /\ r1[r].from = src
               THEN [r1[r] EXCEPT !.from = group] ELSE r1[r]]
      d1 == [n \in NodeIds |->
               IF n \in Range(s.subdata)
               THEN [w.dnode[n] EXCEPT !.owner = group] ELSE w.dnode[n]]
      d2 == [n \in NodeIds |->
               IF n \in Range(s.nodes)
               THEN [d1[n] EXCEPT !.owner = group] ELSE d1[n]]
      d3 == [d2 EXCEPT ![group].inlinks = @ \o s.inlinks,
                       ![group].outlinks = @ \o s.outlinks,
                       ![group].subdata = @ \o s.subdata,
                       ![group].nodes = @ \o s.nodes]
      d4 == [d3 EXCEPT ![src].inlinks = <<>>,
                       ![src].outlinks = <<>>,
                       ![src].subdata = <<>>,
                       ![src].nodes = <<>>]
  IN  [w EXCEPT !.rels = r2, !.dnode = d4]

\* mutant: the lists are copied over, src keeps its own
transfer_nodegraph_to_group_keep_lists(w, group, src) ==
  LET s == w.dnode[src]
      r1 == [r \in RelIds |->
               IF r \in Range(s.inlinks) /\ w.rels[r].to = src
               THEN [w.rels[r] EXCEPT !.to = group] ELSE w.rels[r]]
      r2 == [r \in RelIds |->
               IF r \in Range(s.outlinks) /\ r1[r].from = src
               THEN [r1[r] EXCEPT !.from = group] ELSE r1[r]]
      d1 == [n \in NodeIds |->
               IF n \in Range(s.subdata)
               THEN [w.dnode[n] EXCEPT !.owner = group] ELSE w.dnode[n]]
      d2 == [n \in NodeIds |->
               IF n \in Range(s.nodes) /\ d1[n].owner = src
               THEN [d1[n] EXCEPT !.owner = group] ELSE d1[n]]
      d3 == [d2 EXCEPT ![group].inlinks = @ \o s.inlinks,
                       ![group].outlinks = @ \o s.outlinks,
                       ![group].subdata = @ \o s.subdata,
                       ![group].nodes = @ \o s.nodes]
  IN  [w EXCEPT !.rels = r2, !.dnode = d3]

\* mutant: src's lists are put in front of the group's
transfer_nodegraph_to_group_prepend(w, group, src) ==
  LET s == w.dnode[src]
      r1 == [r \in RelIds |->
               IF r \in Range(s.inlinks) /\ w.rels[r].to = src
               THEN [w.rels[r] EXCEPT !.to = group] ELSE w.rels[r]]
      r2 == [r \in RelIds |->
               IF r \in Range(s.outlinks) /\ r1[r].from = src
               THEN [r1[r] EXCEPT !.from = group] ELSE r1[r]]
      d1 == [n \in NodeIds |->
               IF n \in Range(s.subdata)
               THEN [w.dnode[n] EXCEPT !.owner = group] ELSE w.dnode[n]]
      d2 == [n \in NodeIds |->
               IF n \in Range(s.nodes) /\ d1[n].owner = src
               THEN [d1[n] EXCEPT !.owner = group] ELSE d1[n]]
      d3 == [d2 EXCEPT ![group].inlinks = s.inlinks \o @,
                       ![group].outlinks = s.outlinks \o @,
                       ![group].subdata = s.subdata \o @,
                       ![group].nodes = s.nodes \o @]
      d4 == [d3 EXCEPT ![src].inlinks = <<>>,
                       ![src].outlinks = <<>>,
                       ![src].subdata = <<>>,
                       ![src].nodes = <<>>]
  IN  [w EXCEPT !.rels = r2, !.dnode = d4]

transfer_nodegraph_to_group(w, group, src) ==
  LET s == w.dnode[src]
      \* redirect relationships from src to group
      r1 == [r \in RelIds |->
               IF r \in Range(s.inlinks) /\ w.rels[r].to = src
               THEN [w.rels[r] EXCEPT !.to = group] ELSE w.rels[r]]
      r2 == [r \in RelIds |->
               IF r \in Range(s.outlinks) /\ r1[r].from = src
               THEN [r1[r] EXCEPT !.from = group] ELSE r1[r]]
      \* redirect owner values to point to group
      d1 == [n \in NodeIds |->
               IF n \in Range(s.subdata)
               THEN [w.dnode[n] EXCEPT !.owner = group] ELSE w.dnode[n]]
      d2 == [n \in NodeIds |->
               IF n \in Range(s.nodes) /\ d1[n].owner = src
               THEN [d1[n] EXCEPT !.owner = group] ELSE d1[n]]
      \* move the lists over directly (BLI_movelisttolist empties the source list)
      d3 == [d2 EXCEPT ![group].inlinks = @ \o s.inlinks,
                       ![group].outlinks = @ \o s.outlinks,
                       ![group].subdata = @ \o s.subdata,
                       ![group].nodes = @ \o s.nodes]
      d4 == [d3 EXCEPT ![src].inlinks = <<>>,
                       ![src].outlinks = <<>>,
                       ![src].subdata = <<>>,
                       ![src].nodes = <<>>]
  IN  [w EXCEPT !.rels = r2, !.dnode = d4]

\* mutant: the group is added to the graph before the old ID nodes are freed
MergeIdIdSteps_add_first(w, node1, node2) ==
  LET group == FreshNode(w, DEPSNODE_TYPE_OUTER_GROUP)
      w0 == DEG_create_node(w, DEPSNODE_TYPE_OUTER_GROUP)
      w1 == transfer_nodegraph_to_group(w0, group, node1)
      w2 == transfer_nodegraph_to_group(w1, group, node2)
      w3 == DEG_remove_node(w2, node1)
      w4 == DEG_remove_node(w3, node2)
      w5 == deg_group_add_id_ref(w4, FALSE, group, w4.dnode[node1].id)
      w6 == deg_group_add_id_ref(w5, FALSE, group, w5.dnode[node2].id)
      w7 == DEG_add_node(w6, group)
      w8 == DEG_free_node(w7, node1)
      w9 == DEG_free_node(w8, node2)
  IN  <<w0, w1, w2, w3, w4, w5, w6, w7, w8, w9>>

\* the (ID, ID) branch statement by statement: the state after each of its calls
MergeIdIdSteps(w, node1, node2) ==
  LET group == FreshNode(w, DEPSNODE_TYPE_OUTER_GROUP)
      w0 == DEG_create_node(w, DEPSNODE_TYPE_OUTER_GROUP)
      w1 == transfer_nodegraph_to_group(w0, group, node1)
      w2 == transfer_nodegraph_to_group(w1, group, node2)
      w3 == DEG_remove_node(w2, node1)
      w4 == DEG_remove_node(w3, node2)
      w5 == deg_group_add_id_ref(w4, FALSE, group, w4.dnode[node1].id)
      w6 == deg_group_add_id_ref(w5, FALSE, group, w5.dnode[node2].id)
      w7 == DEG_free_node(w6, node1)
      w8 == DEG_free_node(w7, node2)
      w9 == DEG_add_node(w8, group)
  IN  <<w0, w1, w2, w3, w4, w5, w6, w7, w8, w9>>

\* mutant: only the first node's ID is put in the group's headliner section
MergeIdId_one_ref(w, node1, node2) ==
  LET group == FreshNode(w, DEPSNODE_TYPE_OUTER_GROUP)
      w0 == DEG_create_node(w, DEPSNODE_TYPE_OUTER_GROUP)
      w1 == transfer_nodegraph_to_group(w0, group, node1)
      w2 == transfer_nodegraph_to_group(w1, group, node2)
      w3 == DEG_remove_node(w2, node1)
      w4 == DEG_remove_node(w3, node2)
      w5 == deg_group_add_id_ref(w4, FALSE, group, w4.dnode[node1].id)
      w7 == DEG_free_node(w5, node1)
      w8 == DEG_free_node(w7, node2)
      w9 == DEG_add_node(w8, group)
  IN  [w |-> w9, result |-> group]

\* (ID, ID): a new group takes both nodes over
MergeIdId(w, node1, node2) ==
  LET group == FreshNode(w, DEPSNODE_TYPE_OUTER_GROUP)
      w0 == DEG_create_node(w, DEPSNODE_TYPE_OUTER_GROUP)
      \* transfer node data
      w1 == transfer_nodegraph_to_group(w0, group, node1)
      w2 == transfer_nodegraph_to_group(w1, group, node2)
      \* remove old ID nodes from graph
      w3 == DEG_remove_node(w2, node1)
      w4 == DEG_remove_node(w3, node2)
      \* re-add these ID's as part of headliner section of group (graph == NULL)
      w5 == deg_group_add_id_ref(w4, FALSE, group, w4.dnode[node1].id)
      w6 == deg_group_add_id_ref(w5, FALSE, group, w5.dnode[node2].id)
      \* free old ID-nodes
      w7 == DEG_free_node(w6, node1)
      w8 == DEG_free_node(w7, node2)
      \* add group to graph
      w9 == DEG_add_node(w8, group)
  IN  [w |-> w9, result |-> group]

\* mutant: node2's id_blocks are not moved over before node2 is removed
MergeGroupGroup_ids_left(w, node1, node2) ==
  LET g2ids == w.dnode[node2].id_blocks
      RECURSIVE Redirect(_, _)
      Redirect(gh, ids) ==
        IF ids = <<>> THEN gh
        ELSE Redirect(BLI_ghash_insert(BLI_ghash_remove(gh, Head(ids)), Head(ids), node1),
                      Tail(ids))
      w1 == [w EXCEPT !.graph.nodehash = Redirect(@, g2ids)]
      w2 == [w1 EXCEPT !.dnode[node1].id_blocks = @ \o g2ids]
      w3 == transfer_nodegraph_to_group(w2, node1, node2)
      w4 == DEG_remove_node(w3, node2)
      w5 == DEG_free_node(w4, node2)
  IN  [w |-> w5, result |-> node1]

\* mutant: node2 is freed before it is removed from the graph
MergeGroupGroup_free_first(w, node1, node2) ==
  LET g2ids == w.dnode[node2].id_blocks
      RECURSIVE Redirect(_, _)
      Redirect(gh, ids) ==
        IF ids = <<>> THEN gh
        ELSE Redirect(BLI_ghash_insert(BLI_ghash_remove(gh, Head(ids)), Head(ids), node1),
                      Tail(ids))
      w1 == [w EXCEPT !.graph.nodehash = Redirect(@, g2ids)]
      w2 == [w1 EXCEPT !.dnode[node1].id_blocks = @ \o g2ids,
                       !.dnode[node2].id_blocks = <<>>]
      w3 == transfer_nodegraph_to_group(w2, node1, node2)
      w4 == DEG_free_node(w3, node2)
      w5 == DEG_remove_node(w4, node2)
  IN  [w |-> w5, result |-> node1]

\* mutant: nodehash is not redirected from node2 to node1
MergeGroupGroup_no_redirect(w, node1, node2) ==
  LET g2ids == w.dnode[node2].id_blocks
      w2 == [w EXCEPT !.dnode[node1].id_blocks = @ \o g2ids,
                      !.dnode[node2].id_blocks = <<>>]
      w3 == transfer_nodegraph_to_group(w2, node1, node2)
      w4 == DEG_remove_node(w3, node2)
      w5 == DEG_free_node(w4, node2)
  IN  [w |-> w5, result |-> node1]

\* (Group, Group): node1 becomes base, and is the group that node2's data goes to
MergeGroupGroup(w, node1, node2) ==
  LET g2ids == w.dnode[node2].id_blocks
      \* redirect node-hash + ID-link references
      RECURSIVE Redirect(_, _)
      Redirect(gh, ids) ==
        IF ids = <<>> THEN gh
        ELSE Redirect(BLI_ghash_insert(BLI_ghash_remove(gh, Head(ids)), Head(ids), node1),
                      Tail(ids))
      w1 == [w EXCEPT !.graph.nodehash = Redirect(@, g2ids)]
      w2 == [w1 EXCEPT !.dnode[node1].id_blocks = @ \o g2ids,
                       !.dnode[node2].id_blocks = <<>>]
      \* copy over node2's data
      w3 == transfer_nodegraph_to_group(w2, node1, node2)
      \* remove and free node2
      w4 == DEG_remove_node(w3, node2)
      w5 == DEG_free_node(w4, node2)
  IN  [w |-> w5, result |-> node1]

\* mutant: the ID is added to the group without a graph to index it in
MergeGroupId_unindexed(w, node1, node2) ==
  LET result == IF w.dnode[node1].type = DEPSNODE_TYPE_OUTER_GROUP THEN node1 ELSE node2
      group == result
      idnode == IF w.dnode[node1].type = DEPSNODE_TYPE_OUTER_GROUP THEN node2 ELSE node1
      w1 == transfer_nodegraph_to_group(w, group, idnode)
      w2 == DEG_remove_node(w1, idnode)
      w3 == deg_group_add_id_ref(w2, FALSE, group, w2.dnode[idnode].id)
      w4 == DEG_free_node(w3, idnode)
  IN  [w |-> w4, result |-> result]

\* mutant: node1 is taken for the group without looking at its type
MergeGroupId_first(w, node1, node2) ==
  LET result == node1
      group == node1
      idnode == node2
      w1 == transfer_nodegraph_to_group(w, group, idnode)
      w2 == DEG_remove_node(w1, idnode)
      w3 == deg_group_add_id_ref(w2, TRUE, group, w2.dnode[idnode].id)
      w4 == DEG_free_node(w3, idnode)
  IN  [w |-> w4, result |-> result]

\* anything else: add ID to whatever one is a group
MergeGroupId(w, node1, node2) ==
  LET result == IF w.dnode[node1].type = DEPSNODE_TYPE_OUTER_GROUP THEN node1 ELSE node2
      group == result
      idnode == IF w.dnode[node1].type = DEPSNODE_TYPE_OUTER_GROUP THEN node2 ELSE node1
      \* add ID's data to this group
      w1 == transfer_nodegraph_to_group(w, group, idnode)
      \* remove old ID node from the graph, and assign that ref to group instead
      w2 == DEG_remove_node(w1, idnode)
      w3 == deg_group_add_id_ref(w2, TRUE, group, w2.dnode[idnode].id)
      \* free old ID node
      w4 == DEG_free_node(w3, idnode)
  IN  [w |-> w4, result |-> result]

DEG_group_cyclic_node_pair(w, node1, node2) ==
  LET t1 == w.dnode[node1].type
      t2 == w.dnode[node2].type
  IN  IF t1 = DEPSNODE_TYPE_OUTER_ID /\ t2 = DEPSNODE_TYPE_OUTER_ID
        THEN MergeIdId(w, node1, node2)
      ELSE IF t1 = DEPSNODE_TYPE_OUTER_GROUP /\ t2 = DEPSNODE_TYPE_OUTER_GROUP
        THEN MergeGroupGroup(w, node1, node2)
      ELSE MergeGroupId(w, node1, node2)

\* a relation from -> to, linked into from's outlinks and to's inlinks
DEG_add_new_relation(w, rel, from, to) ==
  LET w1 == [w EXCEPT !.rels[rel] = [alloc |-> TRUE, from |-> from, to |-> to]]
      w2 == [w1 EXCEPT !.dnode[from].outlinks = BLI_addtail(@, rel)]
  IN  [w2 EXCEPT !.dnode[to].inlinks = BLI_addtail(@, rel)]

\* a null DepsNodeTypeInfo pointer
NULL_TYPEINFO == [type |-> "NONE", name |-> "NULL"]

Init ==
  /\ graph = [nodes |-> <<>>, nodehash |-> <<>>]
  /\ dnode = [n \in NodeIds |-> NoNode]
  /\ rels = [r \in RelIds |-> NoRel]
  /\ registry = [created |-> FALSE, entries |-> <<>>]
  /\ nops = 0
  /\ status = "running"
  /\ ret = [op |-> "none", arg |-> NULL_TYPEINFO, outcome |-> "returned",
            val |-> NULL_TYPEINFO]
  /\ ctx = CLG_ctx_init
  /\ clg_ref = [r \in LogRefs |-> [identifier |-> RefIdentifier[r], type |-> Null]]
  /\ thread = [t \in Threads |-> [pc |-> "idle", ref |-> Null, clg_ty |-> Null]]
  /\ sys = SysInit(FALSE, 0, Null)
  /\ hmd = GHOST_OpenHMDManager(sys, FALSE)

Install(w) ==
  /\ graph' = w.graph
  /\ dnode' = w.dnode
  /\ rels' = w.rels

\* a new ID node for an identity that is not indexed yet. Identities are opaque
\* keys, so they are taken in increasing order.
AddIDNode ==
  /\ status = "running"
  /\ nops < MaxOps
  /\ nops' = nops + 1
  /\ {n \in Pool(DEPSNODE_TYPE_OUTER_ID) : dnode[n].st = "unalloc"} # {}
  /\ \E id \in IDs :
       /\ ~BLI_ghash_haskey(graph.nodehash, id)
       /\ \A j \in IDs : j < id => BLI_ghash_haskey(graph.nodehash, j)
       /\ LET node == FreshNode(World, DEPSNODE_TYPE_OUTER_ID)
              w1 == DEG_create_node(World, DEPSNODE_TYPE_OUTER_ID)
              w2 == [w1 EXCEPT !.dnode[node].id = id]
          IN  /\ Install(dnti_outer_id__add_to_graph(w2, node, id))
  /\ UNCHANGED <<hmd, sys, ctx, clg_ref, thread, registry, ret, status>>

\* a new Data node for identity id, indexed or not (of the identities that are not
\* indexed, the least stands for all)
AddDataNode ==
  /\ status = "running"
  /\ nops < MaxOps
  /\ nops' = nops + 1
  /\ Cardinality({n \in NodeIds : dnode[n].type = DEPSNODE_TYPE_DATA}) < MaxData
  /\ \E id \in IDs :
       LET node == FreshNode(World, DEPSNODE_TYPE_DATA)
           w1 == DEG_create_node(World, DEPSNODE_TYPE_DATA)
       IN  IF DEG_find_node(w1, id) # Null
           THEN /\ Install(dnti_data__add_to_graph(w1, node, id))
                /\ status' = status
           ELSE \E outcome \in NullOwnerOutcomes :
                  /\ \A j \in IDs : j < id => BLI_ghash_haskey(graph.nodehash, j)
                  /\ Install(dnti_data__add_to_graph_null(w1, node, outcome))
                  /\ status' = outcome
  /\ UNCHANGED <<hmd, sys, ctx, clg_ref, thread, registry, ret>>

\* a relation between two top-level nodes of the graph
AddRelation ==
  /\ status = "running"
  /\ nops < MaxOps
  /\ nops' = nops + 1
  /\ \E rel \in RelIds, from \in Range(graph.nodes), to \in Range(graph.nodes) :
       /\ ~rels[rel].alloc
       /\ \A r \in RelIds : ~rels[r].alloc => rel <= r
       /\ Install(DEG_add_new_relation(World, rel, from, to))
  /\ UNCHANGED <<hmd, sys, ctx, clg_ref, thread, registry, ret, status>>

\* the cycle detector hands over two distinct top-level nodes
Merge ==
  /\ status = "running"
  /\ nops < MaxOps
  /\ nops' = nops + 1
  /\ \E node1 \in Range(graph.nodes), node2 \in Range(graph.nodes) :
       /\ node1 # node2
       /\ LET m == DEG_group_cyclic_node_pair(World, node1, node2)
          IN  /\ Install(m.w)
  /\ UNCHANGED <<hmd, sys, ctx, clg_ref, thread, registry, ret, status>>

(* ---- Global type registry ---- *)

DEPSNODE_TYPE_OUTER_OP == "OUTER_OP"
NodeTypes ==
  {DEPSNODE_TYPE_OUTER_ID, DEPSNODE_TYPE_OUTER_GROUP, DEPSNODE_TYPE_OUTER_OP,
   DEPSNODE_TYPE_DATA}

DNTI_OUTER_ID == [type |-> DEPSNODE_TYPE_OUTER_ID, name |-> "ID Node"]
DNTI_OUTER_GROUP == [type |-> DEPSNODE_TYPE_OUTER_GROUP, name |-> "ID Group Node"]
DNTI_DATA == [type |-> DEPSNODE_TYPE_DATA, name |-> "ID Group Node"]
DNTI_OUTER_OP == [type |-> DEPSNODE_TYPE_OUTER_OP, name |-> "Operation Node"]

\* the tables a caller may hand to the registry: the built-in ones and, for every
\* type, another table of a caller's own
TypeInfos ==
  {DNTI_OUTER_ID, DNTI_OUTER_GROUP, DNTI_DATA, DNTI_OUTER_OP}
    \cup {[type |-> t, name |-> "other"] : t \in NodeTypes}

\* mutant: the table is not checked for null
DEG_register_node_typeinfo_unchecked(reg, typeinfo) ==
  BLI_ghash_insert(reg, typeinfo.type, typeinfo)

\* reg is the hash's entries
DEG_register_node_typeinfo(reg, typeinfo) ==
  IF typeinfo # NULL_TYPEINFO
  THEN BLI_ghash_insert(reg, typeinfo.type, typeinfo)
  ELSE reg

DEG_register_node_types ==
  LET r0 == <<>>
      r1 == DEG_register_node_typeinfo(r0, DNTI_OUTER_ID)
      r2 == DEG_register_node_typeinfo(r1, DNTI_OUTER_GROUP)
      r3 == DEG_register_node_typeinfo(r2, DNTI_OUTER_OP)
  IN  DEG_register_node_typeinfo(r3, DNTI_DATA)

\* TODO in the source: no lookup is made
DEG_get_node_typeinfo(reg, type) == NULL_TYPEINFO

DEG_node_get_typeinfo(reg, node) ==
  IF node # Null THEN DEG_get_node_typeinfo(reg, dnode[node].type) ELSE NULL_TYPEINFO

\* once, at startup
RegisterNodeTypes ==
  /\ ~registry.created
  /\ registry' = [created |-> TRUE, entries |-> DEG_register_node_types]
  /\ ret' = [op |-> "register_types", arg |-> NULL_TYPEINFO, outcome |-> "returned",
             val |-> NULL_TYPEINFO]
  /\ UNCHANGED <<hmd, sys, ctx, clg_ref, thread, graph, dnode, rels, status, nops>>

\* a caller registers a table, or hands over a null pointer
RegisterTypeinfo ==
  /\ registry.created
  /\ Len(registry.entries) < Len(DEG_register_node_types) + MaxRegs
  /\ \E typeinfo \in TypeInfos \cup {NULL_TYPEINFO} :
       /\ registry' = [registry EXCEPT
                         !.entries = DEG_register_node_typeinfo(@, typeinfo)]
       /\ ret' = [op |-> "register", arg |-> typeinfo, outcome |-> "returned",
                  val |-> NULL_TYPEINFO]
  /\ UNCHANGED <<hmd, sys, ctx, clg_ref, thread, graph, dnode, rels, status, nops>>

GetTypeinfo ==
  /\ registry.created
  /\ \E type \in NodeTypes :
       ret' = [op |-> "get", arg |-> [type |-> type, name |-> "NULL"],
               outcome |-> "returned",
               val |-> DEG_get_node_typeinfo(registry.entries, type)]
  /\ UNCHANGED <<hmd, sys, ctx, clg_ref, thread, graph, dnode, rels, registry, status, nops>>

NextRegistry ==
  \/ RegisterNodeTypes
  \/ RegisterTypeinfo
  \/ GetTypeinfo

SpecRegistry == Init /\ [][NextRegistry]_vars

Next ==
  \/ AddIDNode
  \/ AddDataNode
  \/ AddRelation
  \/ Merge

Spec == Init /\ [][Next]_vars

\* the log context after CLG_init, under filter changes and first uses of log
\* references
SpecLog == Init /\ [][NextLog]_vars

\* the log context after CLG_init, under changes of the levels and first uses of
\* log references
SpecLogLevel == Init /\ [][NextLogLevel]_vars

\* the log context after CLG_init, with threads that come to use log references
SpecLogThreads == Init /\ [][NextLogThreads]_vars

\* the manager after its construction, for every way the library answers
InitHMD ==
  /\ graph = [nodes |-> <<>>, nodehash |-> <<>>]
  /\ dnode = [n \in NodeIds |-> NoNode]
  /\ rels = [r \in RelIds |-> NoRel]
  /\ registry = [created |-> FALSE, entries |-> <<>>]
  /\ nops = 0
  /\ status = "running"
  /\ ret = [op |-> "none", arg |-> NULL_TYPEINFO, outcome |-> "returned",
            val |-> NULL_TYPEINFO]
  /\ ctx = CLG_ctx_init
  /\ clg_ref = [r \in LogRefs |-> [identifier |-> RefIdentifier[r], type |-> Null]]
  /\ thread = [t \in Threads |-> [pc |-> "idle", ref |-> Null, clg_ty |-> Null]]
  /\ \E ctx_created \in BOOLEAN, num_devices \in 0..MaxDevices,
        window \in {Null, ActiveWindow}, opened \in BOOLEAN :
       /\ sys = SysInit(ctx_created, num_devices, window)
       /\ hmd = GHOST_OpenHMDManager(sys, opened)

SpecHMD == InitHMD /\ [][NextHMD]_vars
(* ---- a graph that holds a group ---- *)

EmptyWorld ==
  [graph |-> [nodes |-> <<>>, nodehash |-> <<>>],
   dnode |-> [n \in NodeIds |-> NoNode],
   rels |-> [r \in RelIds |-> NoRel]]

\* a new ID node for id, created and added to the graph
WithIDNode(w, id) ==
  LET node == FreshNode(w, DEPSNODE_TYPE_OUTER_ID)
      w1 == DEG_create_node(w, DEPSNODE_TYPE_OUTER_ID)
  IN  dnti_outer_id__add_to_graph([w1 EXCEPT !.dnode[node].id = id], node, id)

\* the graph after ID nodes for the identities 1..4 were added and the first two
\* were merged: two ID nodes and a group
GroupWorld ==
  LET w4 == WithIDNode(WithIDNode(WithIDNode(WithIDNode(EmptyWorld, 1), 2), 3), 4)
  IN  DEG_group_cyclic_node_pair(w4, w4.graph.nodes[1], w4.graph.nodes[2]).w

InitGroup ==
  /\ graph = GroupWorld.graph
  /\ dnode = GroupWorld.dnode
  /\ rels = GroupWorld.rels
  /\ registry = [created |-> FALSE, entries |-> <<>>]
  /\ nops = 0
  /\ status = "running"
  /\ ret = [op |-> "none", arg |-> NULL_TYPEINFO, outcome |-> "returned",
            val |-> NULL_TYPEINFO]
  /\ ctx = CLG_ctx_init
  /\ clg_ref = [r \in LogRefs |-> [identifier |-> RefIdentifier[r], type |-> Null]]
  /\ thread = [t \in Threads |-> [pc |-> "idle", ref |-> Null, clg_ty |-> Null]]
  /\ sys = SysInit(FALSE, 0, Null)
  /\ hmd = GHOST_OpenHMDManager(sys, FALSE)

NextGroup ==
  \/ AddDataNode
  \/ AddRelation
  \/ Merge

\* the operations on a graph that has come to hold a group and two ID nodes
SpecGroup == InitGroup /\ [][NextGroup]_vars

\* the operations, on a graph that is empty or that has come to hold a group
SpecEither == (Init \/ InitGroup) /\ [][Next]_vars

(* ---- removal of nodes by the graph's holder ---- *)

IsOuter(dn, n) == dn[n].type \in {DEPSNODE_TYPE_OUTER_ID, DEPSNODE_TYPE_OUTER_GROUP}

\* DEG_remove_node on a live outer node that the caller holds, whether the node is
\* in the graph ("remove") or was taken out of it before ("remove_again"). The
\* call has no result and reports nothing.
RemoveNode ==
  /\ status = "running"
  /\ nops < MaxOps
  /\ nops' = nops + 1
  /\ \E node \in {n \in NodeIds : dnode[n].st = "live" /\ IsOuter(dnode, n)} :
       /\ Install(DEG_remove_node(World, node))
       /\ ret' = [op |-> IF node \in Range(graph.nodes) THEN "remove" ELSE "remove_again",
                  arg |-> NULL_TYPEINFO, outcome |-> "returned", val |-> NULL_TYPEINFO]
  /\ UNCHANGED <<hmd, sys, ctx, clg_ref, thread, registry, status>>

NextRemove ==
  \/ AddIDNode
  \/ Merge
  \/ RemoveNode

SpecRemove == Init /\ [][NextRemove]_vars

(* ---- inner nodes ---- *)

\* an inner node is put in the `nodes` list of an outer node, with the outer node
\* or one of the outer node's subdata nodes as its owner
DEG_add_inner_node(w, node, outer, owner) ==
  [w EXCEPT !.dnode[node].owner = owner,
            !.dnode[outer].nodes = BLI_addtail(@, node)]

AddInnerNode ==
  /\ status = "running"
  /\ nops < MaxOps
  /\ nops' = nops + 1
  /\ {n \in Pool(DEPSNODE_TYPE_INNER) : dnode[n].st = "unalloc"} # {}
  /\ \E i \in 1..Len(graph.nodes) :
       \* the outer nodes are served in the order of graph.nodes: none after this one
       \* has an inner node yet
       /\ \A j \in (i + 1)..Len(graph.nodes) : dnode[graph.nodes[j]].nodes = <<>>
       /\ \E owner \in {graph.nodes[i]} \cup Range(dnode[graph.nodes[i]].subdata) :
            LET node == FreshNode(World, DEPSNODE_TYPE_INNER)
                w1 == DEG_create_node(World, DEPSNODE_TYPE_INNER)
            IN  Install(DEG_add_inner_node(w1, node, graph.nodes[i], owner))
  /\ UNCHANGED <<hmd, sys, ctx, clg_ref, thread, registry, ret, status>>

\* how far the construction of the graph has come: Data nodes are attached first,
\* then inner nodes, then one relation (SpecGroup is the one that builds several);
\* the merges come when the graph is built
NoInnerNodeYet == \A n \in NodeIds : dnode[n].type # DEPSNODE_TYPE_INNER
NoRelationYet == \A r \in RelIds : ~rels[r].alloc
NoMergeYet == graph = GroupWorld.graph

NextInner ==
  \/ AddDataNode /\ NoInnerNodeYet /\ NoRelationYet /\ NoMergeYet
  \/ AddInnerNode /\ NoRelationYet /\ NoMergeYet
  \/ AddRelation /\ NoRelationYet /\ NoMergeYet
  \/ Merge

\* the construction of a graph that holds a group and two ID nodes, inner nodes
\* included, and the merges that follow it
SpecInner == InitGroup /\ [][NextInner]_vars

(* ---- copy_data of the outer nodes ---- *)

\* the address the next copy is made at
FreshCopy(w) == CHOOSE n \in Pool("COPY") :
  /\ w.dnode[n].st = "unalloc"
  /\ \A m \in Pool("COPY") : w.dnode[m].st = "unalloc" => n <= m

\* a duplicate of the node, made at FreshCopy(w); a Data node or an inner node has
\* no copy_data of its own, so that its fields are the original's
DEG_copy_node(w, node) ==
  [w EXCEPT !.dnode[FreshCopy(w)] = w.dnode[node]]

\* the list that takes the place of the destination list: a duplicate of src
BLI_duplicatelist(src) == src

RECURSIVE CopySubdata(_, _, _)
\* for (itA = src->subdata.first; itA; itA = itA->next)
CopySubdata(w, dst, children) ==
  IF children = <<>> THEN w
  ELSE LET node == FreshCopy(w)
           w1 == DEG_copy_node(w, Head(children))
       IN  CopySubdata([w1 EXCEPT !.dnode[dst].subdata = BLI_addtail(@, node)],
                       dst, Tail(children))

RECURSIVE CopyNodes(_, _, _)
\* for (itA = src->nodes.first; itA; itA = itA->next)
CopyNodes(w, dst, children) ==
  IF children = <<>> THEN w
  ELSE LET node == FreshCopy(w)
           w1 == DEG_copy_node(w, Head(children))
       IN  CopyNodes([w1 EXCEPT !.dnode[dst].nodes = BLI_addtail(@, node)],
                     dst, Tail(children))

\* mutant: the children themselves are linked into the destination
dnti_outer_node__copy_data_share(w, dst, src) ==
  [w EXCEPT !.dnode[dst].subdata = @ \o w.dnode[src].subdata,
            !.dnode[dst].nodes = @ \o w.dnode[src].nodes]

dnti_outer_node__copy_data(w, dst, src) ==
  LET w1 == IF w.dnode[src].subdata # <<>>
            THEN CopySubdata(w, dst, w.dnode[src].subdata)
            ELSE w
  IN  CopyNodes(w1, dst, w1.dnode[src].nodes)

dnti_outer_group__copy_data(w, dst, src) ==
  LET w1 == dnti_outer_node__copy_data(w, dst, src)
  IN  [w1 EXCEPT !.dnode[dst].id_blocks = BLI_duplicatelist(w1.dnode[src].id_blocks)]

\* the copy_data entry of the dispatch table of src's type
copy_data(w, dst, src) ==
  IF w.dnode[src].type = DEPSNODE_TYPE_OUTER_GROUP
  THEN dnti_outer_group__copy_data(w, dst, src)
  ELSE dnti_outer_node__copy_data(w, dst, src)

(* ================= properties ================= *)

TopLevel == Range(graph.nodes)
IdNodes == {n \in NodeIds : dnode[n].type = DEPSNODE_TYPE_OUTER_ID}
GroupNodes == {n \in NodeIds : dnode[n].type = DEPSNODE_TYPE_OUTER_GROUP}
DataNodes == {n \in NodeIds : dnode[n].type = DEPSNODE_TYPE_DATA}
\* every identity an ID node was ever added for (a freed ID node keeps its id)
AddedIDs == {dnode[n].id : n \in IdNodes}
EntriesOf(gh, key) == {i \in 1..Len(gh) : gh[i][1] = key}
NoDuplicates(s) == \A i, j \in 1..Len(s) : s[i] = s[j] => i = j
\* the pairs the cycle detector may hand to the merge, while a merge can be made
CanMerge == status = "running" /\ nops < MaxOps
MergePairs == IF CanMerge THEN {p \in TopLevel \X TopLevel : p[1] # p[2]} ELSE {}
OnlyAddsSoFar == GroupNodes = {} /\ \A n \in NodeIds : dnode[n].st # "freed"

\* C1: after any sequence of ID-node adds, Data-node attachments and merges, every
\* identity ever added is a key of nodehash exactly once, and its value is a live
\* outer node that is in graph.nodes.
C1_NodehashInvariant ==
  \A id \in AddedIDs :
    /\ Cardinality(EntriesOf(graph.nodehash, id)) = 1
    /\ LET v == BLI_ghash_lookup(graph.nodehash, id)
       IN  /\ v \in TopLevel
           /\ dnode[v].st = "live"
           /\ IsOuter(dnode, v)

\* an ID/ID merge and a Group/ID merge have been made, and a Data node is attached
C1_Witness ==
  \E g \in GroupNodes \cap TopLevel, d \in DataNodes :
    /\ Len(dnode[g].id_blocks) >= 3
    /\ dnode[d].owner = g

\* C2: after ID-node adds only (distinct identities), each added identity is in
\* nodehash exactly once, mapped to the node added for it, and graph.nodes holds
\* exactly those nodes in the order they were added (nodes are allocated at
\* increasing addresses, so that order is the order of the addresses).
C2_AddsIndexInOrder ==
  OnlyAddsSoFar =>
    /\ \A n \in IdNodes :
         /\ Cardinality(EntriesOf(graph.nodehash, dnode[n].id)) = 1
         /\ BLI_ghash_lookup(graph.nodehash, dnode[n].id) = n
    /\ TopLevel = IdNodes
    /\ Len(graph.nodes) = Cardinality(IdNodes)
    /\ \A i, j \in 1..Len(graph.nodes) : i < j => graph.nodes[i] < graph.nodes[j]
    /\ Len(graph.nodehash) = Cardinality(IdNodes)

C2_Witness == OnlyAddsSoFar /\ Cardinality(IdNodes) >= 3

\* C3: merging two distinct live ID nodes A (identity a) and B (identity b) returns
\* a newly created Group node that is in graph.nodes, nodehash[a] = nodehash[b] =
\* the survivor, its id_blocks is <<a, b>>, and neither A nor B is in graph.nodes.
C3_MergeIdId ==
  \A p \in MergePairs :
    (dnode[p[1]].type = DEPSNODE_TYPE_OUTER_ID /\ dnode[p[2]].type = DEPSNODE_TYPE_OUTER_ID)
    => LET m == DEG_group_cyclic_node_pair(World, p[1], p[2])
           a == dnode[p[1]].id
           b == dnode[p[2]].id
       IN  /\ dnode[m.result].st = "unalloc"
           /\ m.w.dnode[m.result].st = "live"
           /\ m.w.dnode[m.result].type = DEPSNODE_TYPE_OUTER_GROUP
           /\ m.result \in Range(m.w.graph.nodes)
           /\ BLI_ghash_lookup(m.w.graph.nodehash, a) = m.result
           /\ BLI_ghash_lookup(m.w.graph.nodehash, b) = m.result
           /\ m.w.dnode[m.result].id_blocks = <<a, b>>
           /\ p[1] \notin Range(m.w.graph.nodes)
           /\ p[2] \notin Range(m.w.graph.nodes)

\* two ID nodes have been merged: their group holds their two identities
C3_Witness ==
  \E g \in GroupNodes \cap TopLevel, n1 \in IdNodes, n2 \in IdNodes :
    /\ n1 # n2
    /\ dnode[n1].st = "freed" /\ dnode[n2].st = "freed"
    /\ dnode[g].id_blocks = <<dnode[n1].id, dnode[n2].id>>
    /\ BLI_ghash_lookup(graph.nodehash, dnode[n1].id) = g
    /\ BLI_ghash_lookup(graph.nodehash, dnode[n2].id) = g

\* the Group and the ID node of a pair, in either order
GroupOf(p) == IF dnode[p[1]].type = DEPSNODE_TYPE_OUTER_GROUP THEN p[1] ELSE p[2]
IdOf(p) == IF dnode[p[1]].type = DEPSNODE_TYPE_OUTER_GROUP THEN p[2] ELSE p[1]
GroupIdPairs ==
  {p \in MergePairs : {dnode[p[1]].type, dnode[p[2]].type}
                        = {DEPSNODE_TYPE_OUTER_GROUP, DEPSNODE_TYPE_OUTER_ID}}

\* C4: merging a live Group node and a live ID node with identity c returns the
\* Group, with c appended last to its id_blocks and nodehash[c] = the Group; the ID
\* node is no longer in graph.nodes, and every relation whose `to` or `from` was the
\* ID node has the Group as that endpoint.
C4_MergeGroupId ==
  \A p \in GroupIdPairs :
    LET m == DEG_group_cyclic_node_pair(World, p[1], p[2])
        G == GroupOf(p)
        I == IdOf(p)
        c == dnode[I].id
    IN  /\ m.result = G
        /\ m.w.dnode[G].id_blocks = Append(dnode[G].id_blocks, c)
        /\ BLI_ghash_lookup(m.w.graph.nodehash, c) = G
        /\ G \in Range(m.w.graph.nodes)
        /\ I \notin Range(m.w.graph.nodes)
        /\ \A r \in RelIds :
             /\ (rels[r].alloc /\ rels[r].to = I) => m.w.rels[r].to = G
             /\ (rels[r].alloc /\ rels[r].from = I) => m.w.rels[r].from = G

\* a Group of two identities and an ID node that a relation points at are about to
\* be merged, and the merge redirects that relation
C4_Witness ==
  /\ \E p \in GroupIdPairs, r \in RelIds :
       /\ Len(dnode[GroupOf(p)].id_blocks) = 2
       /\ rels[r].alloc /\ rels[r].to = IdOf(p) /\ rels[r].from = GroupOf(p)
       /\ DEG_group_cyclic_node_pair(World, p[1], p[2]).w.rels[r].to = GroupOf(p)
       /\ Len(DEG_group_cyclic_node_pair(World, p[1], p[2]).w.dnode[GroupOf(p)].id_blocks) = 3

GroupGroupPairs ==
  {p \in MergePairs : dnode[p[1]].type = DEPSNODE_TYPE_OUTER_GROUP
                      /\ dnode[p[2]].type = DEPSNODE_TYPE_OUTER_GROUP}

\* C5: merging two distinct live Group nodes A and B returns A; every identity of B
\* maps to A in nodehash, A.id_blocks is A's old id_blocks followed by B's, B's
\* relations and children are A's (after A's own, endpoints and owners redirected),
\* and B is no longer in graph.nodes.
C5_MergeGroupGroup ==
  \A p \in GroupGroupPairs :
    LET m == DEG_group_cyclic_node_pair(World, p[1], p[2])
        A == p[1]
        B == p[2]
    IN  /\ m.result = A
        /\ \A id \in Range(dnode[B].id_blocks) :
             BLI_ghash_lookup(m.w.graph.nodehash, id) = A
        /\ m.w.dnode[A].id_blocks = dnode[A].id_blocks \o dnode[B].id_blocks
        /\ m.w.dnode[A].inlinks = dnode[A].inlinks \o dnode[B].inlinks
        /\ m.w.dnode[A].outlinks = dnode[A].outlinks \o dnode[B].outlinks
        /\ m.w.dnode[A].subdata = dnode[A].subdata \o dnode[B].subdata
        /\ m.w.dnode[A].nodes = dnode[A].nodes \o dnode[B].nodes
        /\ \A r \in Range(dnode[B].inlinks) : m.w.rels[r].to = A
        /\ \A r \in Range(dnode[B].outlinks) : m.w.rels[r].from = A
        /\ \A d \in Range(dnode[B].subdata) : m.w.dnode[d].owner = A
        /\ A \in Range(m.w.graph.nodes)
        /\ B \notin Range(m.w.graph.nodes)

\* two Groups are about to be merged, the second with a relation from the first
\* and with a child: the merge hands both to the first
C5_Witness ==
  \E p \in GroupGroupPairs, r \in RelIds, d \in DataNodes :
    LET m == DEG_group_cyclic_node_pair(World, p[1], p[2])
    IN  /\ dnode[p[2]].inlinks = <<r>> /\ rels[r].from = p[1] /\ rels[r].to = p[2]
        /\ dnode[p[2]].subdata = <<d>> /\ dnode[d].owner = p[2]
        /\ m.w.rels[r].to = p[1]
        /\ m.w.dnode[d].owner = p[1]
        /\ Len(m.w.dnode[p[1]].id_blocks) = 4

\* C6: with relations between top-level nodes, after any sequence of merges no
\* relation, and no relation linked in a node's inlinks or outlinks, has a `from`
\* or `to` that is absent from graph.nodes.
C6_RelationEndpointsInGraph ==
  /\ \A r \in RelIds :
       rels[r].alloc => rels[r].from \in TopLevel /\ rels[r].to \in TopLevel
  /\ \A n \in NodeIds : \A r \in Range(dnode[n].inlinks) \cup Range(dnode[n].outlinks) :
       rels[r].alloc /\ rels[r].from \in TopLevel /\ rels[r].to \in TopLevel

\* a relation between two top-level nodes, one of them about to be merged away:
\* the merge moves that end of the relation to the survivor, which is in graph.nodes
C6_Witness ==
  /\ \E p \in MergePairs, r \in RelIds :
       LET m == DEG_group_cyclic_node_pair(World, p[1], p[2])
       IN  /\ rels[r].alloc
           /\ rels[r].from = p[2] /\ rels[r].to \notin {p[1], p[2]}
           /\ p[2] \notin Range(m.w.graph.nodes)
           /\ m.w.rels[r].from = m.result
           /\ m.result \in Range(m.w.graph.nodes)

\* a Data node can be attached for id: the identity is indexed, and the model's
\* bound leaves a Data node to allocate
CanAttach(id) ==
  /\ status = "running" /\ nops < MaxOps
  /\ BLI_ghash_haskey(graph.nodehash, id)
  /\ Cardinality(DataNodes) < MaxData

\* the state after a Data node is created and added for id
Attached(id) ==
  dnti_data__add_to_graph(DEG_create_node(World, DEPSNODE_TYPE_DATA),
                          FreshNode(World, DEPSNODE_TYPE_DATA), id)

IdIdPairs ==
  {p \in MergePairs : dnode[p[1]].type = DEPSNODE_TYPE_OUTER_ID
                      /\ dnode[p[2]].type = DEPSNODE_TYPE_OUTER_ID}

\* C8: while the program runs, every Data node's owner is an outer node in
\* graph.nodes and the Data node is in that owner's subdata; and a Data node
\* attached under an ID node X1 is, after merging X1 with another ID node, the same
\* node in the new Group's subdata, with the Group as owner and both identities
\* indexed to the Group.
C8_DataOwnerInGraph ==
  status = "running" =>
    /\ \A d \in DataNodes :
         /\ dnode[d].owner \in TopLevel
         /\ IsOuter(dnode, dnode[d].owner)
         /\ dnode[dnode[d].owner].st = "live"
         /\ d \in Range(dnode[dnode[d].owner].subdata)
    /\ \A p \in IdIdPairs :
         LET m == DEG_group_cyclic_node_pair(World, p[1], p[2])
         IN  \A d \in Range(dnode[p[1]].subdata) \cup Range(dnode[p[2]].subdata) :
               /\ m.w.dnode[d].owner = m.result
               /\ d \in Range(m.w.dnode[m.result].subdata)
               /\ m.result \in Range(m.w.graph.nodes)
               /\ BLI_ghash_lookup(m.w.graph.nodehash, dnode[p[1]].id) = m.result
               /\ BLI_ghash_lookup(m.w.graph.nodehash, dnode[p[2]].id) = m.result

\* an ID node X1 with a Data node under it and a fresh ID node X2 are about to be
\* merged, and the merge makes the new Group the Data node's owner
C8_Witness ==
  /\ \E p \in IdIdPairs, d \in DataNodes :
       LET m == DEG_group_cyclic_node_pair(World, p[1], p[2])
       IN  /\ dnode[p[1]].subdata = <<d>> /\ dnode[d].owner = p[1]
           /\ dnode[p[2]].subdata = <<>>
           /\ m.w.dnode[d].owner = m.result
           /\ m.w.dnode[m.result].subdata = <<d>>
           /\ m.w.dnode[m.result].type = DEPSNODE_TYPE_OUTER_GROUP

\* C9: Data-node add_to_graph for an identity with no indexed outer node fails as a
\* contract violation: the call is stopped there, node.owner is not written and the
\* node is put in no collection.
C9_UnindexedAttachFails ==
  status # "running" => status = "assert_abort"

Registered(reg, type) ==
  IF BLI_ghash_haskey(reg, type) THEN reg[GhashFirst(reg, type)][2] ELSE NULL_TYPEINFO

\* C11: DEG_get_node_typeinfo(tag) returns the table most recently registered for
\* tag (the tags of DEG_register_node_types included) and the not-found result only
\* for a tag never registered; DEG_node_get_typeinfo(node) returns the same table
\* as DEG_get_node_typeinfo(node.type).
C11_LookupReturnsRegistered ==
  /\ ret.op = "get" => ret.val = Registered(registry.entries, ret.arg.type)
  /\ \A t \in NodeTypes :
       DEG_get_node_typeinfo(registry.entries, t) = Registered(registry.entries, t)
  /\ \A n \in NodeIds :
       DEG_node_get_typeinfo(registry.entries, n)
         = DEG_get_node_typeinfo(registry.entries, dnode[n].type)

\* C12: registering a table with a tag that is already registered leaves exactly
\* one registry entry for the tag, a lookup of the tag then returns the table just
\* registered, and the entries of the other tags are unchanged.
C12_LastWriteWins ==
  registry.created =>
    \A typeinfo \in TypeInfos :
      BLI_ghash_haskey(registry.entries, typeinfo.type) =>
        LET reg == DEG_register_node_typeinfo(registry.entries, typeinfo)
            Other(e) == e[1] # typeinfo.type
        IN  /\ Cardinality(EntriesOf(reg, typeinfo.type)) = 1
            /\ DEG_get_node_typeinfo(reg, typeinfo.type) = typeinfo
            /\ SelectSeq(reg, Other) = SelectSeq(registry.entries, Other)

\* the pairs of distinct live nodes that none of the merge's cases is defined for
DefinedTypePairs ==
  {<<DEPSNODE_TYPE_OUTER_ID, DEPSNODE_TYPE_OUTER_ID>>,
   <<DEPSNODE_TYPE_OUTER_GROUP, DEPSNODE_TYPE_OUTER_GROUP>>,
   <<DEPSNODE_TYPE_OUTER_GROUP, DEPSNODE_TYPE_OUTER_ID>>,
   <<DEPSNODE_TYPE_OUTER_ID, DEPSNODE_TYPE_OUTER_GROUP>>}
UndefinedPairs ==
  IF CanMerge
  THEN {p \in NodeIds \X NodeIds :
          /\ p[1] # p[2]
          /\ dnode[p[1]].st = "live" /\ dnode[p[2]].st = "live"
          /\ <<dnode[p[1]].type, dnode[p[2]].type>> \notin DefinedTypePairs}
  ELSE {}

\* C13: DEG_group_cyclic_node_pair called with a pair of node types that is none of
\* (ID, ID), (Group, Group), (Group, ID), (ID, Group) is a fatal precondition
\* violation: no relation, collection, nodehash entry or node is modified or freed.
C13_UndefinedPairUntouched ==
  \A p \in UndefinedPairs :
    DEG_group_cyclic_node_pair(World, p[1], p[2]).w = World

\* the identities that nodehash maps to node
KeysOf(gh, node) == {gh[i][1] : i \in {j \in 1..Len(gh) : gh[j][2] = node}}
LiveGroups == {g \in GroupNodes : dnode[g].st = "live"}

\* C14: in every state reachable by adds and merges of distinct live top-level
\* nodes, every Group node in graph.nodes has at least two identities in id_blocks
\* and at least two nodehash keys that map to it.
C14_GroupHasTwoIdentities ==
  \A g \in GroupNodes \cap TopLevel :
    /\ Len(dnode[g].id_blocks) >= 2
    /\ Cardinality(Range(dnode[g].id_blocks)) >= 2
    /\ Cardinality(KeysOf(graph.nodehash, g)) >= 2

\* two Groups fresh from ID/ID merges are in the graph, each with exactly two
\* identities and two nodehash keys
C14_Witness ==
  \E g \in GroupNodes \cap TopLevel, h \in GroupNodes \cap TopLevel :
    /\ g # h
    /\ Len(dnode[g].id_blocks) = 2 /\ Len(dnode[h].id_blocks) = 2
    /\ Cardinality(KeysOf(graph.nodehash, g)) = 2
    /\ Cardinality(KeysOf(graph.nodehash, h)) = 2

\* C15: in every state reachable by adds and merges, each live Group's id_blocks
\* holds no identity twice, the id_blocks of two different live Groups are
\* disjoint, and the identities that nodehash maps to a Group are exactly the
\* Group's id_blocks.
C15_IdBlocksAreTheIndexedSet ==
  /\ \A g \in LiveGroups :
       /\ NoDuplicates(dnode[g].id_blocks)
       /\ KeysOf(graph.nodehash, g) = Range(dnode[g].id_blocks)
  /\ \A g \in LiveGroups, h \in LiveGroups :
       g # h => Range(dnode[g].id_blocks) \cap Range(dnode[h].id_blocks) = {}
  /\ \A g \in GroupNodes \ LiveGroups : KeysOf(graph.nodehash, g) = {}

\* two Groups have been merged: the survivor holds the four identities, all of
\* them indexed to it, and the absorbed Group is freed
C15_Witness ==
  \E g \in LiveGroups, h \in GroupNodes :
    /\ dnode[h].st = "freed"
    /\ Len(dnode[g].id_blocks) = 4
    /\ Cardinality(KeysOf(graph.nodehash, g)) = 4

\* C16: in every merge (all three cases), at the moment DEG_free_node is applied to
\* a node, the node is not an endpoint of any relation, not a member of
\* graph.nodes, not the value of any nodehash entry and not the owner of any child.
C16_FreedNodeUnreferenced ==
  \A n \in NodeIds : dnode[n].st = "freed" => dnode[n].refs_at_free = {}

\* a Group with a relation from the other Group and with a child is about to be
\* absorbed: it is referred to in all four ways before the merge, and in none when
\* the merge frees it
C16_Witness ==
  \E p \in GroupGroupPairs :
    LET m == DEG_group_cyclic_node_pair(World, p[1], p[2])
    IN  /\ ReferencesTo(World, p[2]) = {"relation", "graph.nodes", "nodehash", "owner"}
        /\ \E n \in IdNodes : dnode[n].st = "freed" /\ dnode[n].refs_at_free = {}
        /\ m.w.dnode[p[2]].st = "freed"
        /\ m.w.dnode[p[2]].refs_at_free = {}

\* C17: remove_from_graph(graph, node), called once on a live ID or Group node of
\* the graph, removes node from graph.nodes and erases every nodehash entry whose
\* value is node; the nodehash entries of the other nodes and the relative order
\* of the other nodes in graph.nodes are unchanged.
C17_RemoveFromGraph ==
  status = "running" =>
    \A node \in TopLevel :
      LET w1 == DEG_remove_node(World, node)
          Others(e) == e[2] # node
          NotNode(n) == n # node
      IN  /\ node \notin Range(w1.graph.nodes)
          /\ KeysOf(w1.graph.nodehash, node) = {}
          /\ SelectSeq(w1.graph.nodehash, Others) = SelectSeq(graph.nodehash, Others)
          /\ Len(w1.graph.nodehash) = Len(SelectSeq(graph.nodehash, Others))
          /\ w1.graph.nodes = SelectSeq(graph.nodes, NotNode)
          /\ Len(w1.graph.nodes) = Len(graph.nodes) - 1

\* a Group of three identities stands after an ID node in graph.nodes: removing
\* the Group takes its three entries out of nodehash and leaves the ID node, and
\* the ID node's entry, where they were
C17_Witness ==
  \E i \in 1..Len(graph.nodes) :
    LET g == graph.nodes[i]
        w1 == DEG_remove_node(World, g)
    IN  /\ status = "running"
        /\ g \in GroupNodes
        /\ Len(dnode[g].id_blocks) = 3
        /\ i > 1 /\ graph.nodes[i - 1] \in IdNodes
        /\ Len(w1.graph.nodes) = Len(graph.nodes) - 1
        /\ Len(w1.graph.nodehash) = Len(graph.nodehash) - 3
        /\ w1.graph.nodes[i - 1] = graph.nodes[i - 1]
        /\ BLI_ghash_lookup(w1.graph.nodehash, dnode[graph.nodes[i - 1]].id)
             = graph.nodes[i - 1]

\* C18: a merge neither creates nor destroys relations: the relations are the same
\* before and after, an endpoint that was not one of the two merged nodes is
\* unchanged, and an endpoint that was one of them becomes the survivor; the
\* top-level nodes other than the merged pair keep their place among each other in
\* graph.nodes (their order; the index of a node that stood after a merged node
\* goes down as that node is unlinked), their nodehash entries and their children.
C18_MergeKeepsTheRest ==
  \A p \in MergePairs :
    LET m == DEG_group_cyclic_node_pair(World, p[1], p[2])
        Moved(n) == IF n \in {p[1], p[2]} THEN m.result ELSE n
        Other(n) == n \notin {p[1], p[2], m.result}
    IN  /\ \A r \in RelIds :
             /\ m.w.rels[r].alloc = rels[r].alloc
             /\ rels[r].alloc =>
                  /\ m.w.rels[r].from = Moved(rels[r].from)
                  /\ m.w.rels[r].to = Moved(rels[r].to)
        /\ SelectSeq(m.w.graph.nodes, Other) = SelectSeq(graph.nodes, Other)
        /\ \A n \in TopLevel \ {p[1], p[2]} :
             /\ n \in Range(m.w.graph.nodes)
             /\ KeysOf(m.w.graph.nodehash, n) = KeysOf(graph.nodehash, n)
             /\ m.w.dnode[n].subdata = dnode[n].subdata
             /\ m.w.dnode[n].nodes = dnode[n].nodes
             /\ m.w.dnode[n].id_blocks = dnode[n].id_blocks
             /\ \A d \in Range(dnode[n].subdata) : m.w.dnode[d].owner = n

\* two nodes are about to be merged while a third node, which stands after one of
\* them in graph.nodes, has a child and a relation to the second of them: the merge
\* moves the relation's `to` end to the survivor and leaves the third node its
\* child and its nodehash entry
C18_Witness ==
  \E p \in MergePairs, i \in 1..Len(graph.nodes), r \in RelIds :
    LET c == graph.nodes[i]
        m == DEG_group_cyclic_node_pair(World, p[1], p[2])
    IN  /\ c \notin {p[1], p[2]}
        /\ \E j \in 1..Len(graph.nodes) : j < i /\ graph.nodes[j] = p[1]
        /\ dnode[c].subdata # <<>>
        /\ rels[r].alloc /\ rels[r].from = c /\ rels[r].to = p[2]
        /\ m.w.rels[r].from = c /\ m.w.rels[r].to = m.result
        /\ m.w.dnode[c].subdata = dnode[c].subdata
        /\ \E k \in 1..Len(m.w.graph.nodes) : k < i /\ m.w.graph.nodes[k] = c

\* C19: for a live Group G and a live ID node I, merge(graph, G, I) and
\* merge(graph, I, G) both return G and produce the same final graph state (same
\* graph.nodes, nodehash, id_blocks, relation endpoints, child collections, owners).
C19_MergeGroupIdEitherOrder ==
  \A p \in GroupIdPairs :
    LET G == GroupOf(p)
        I == IdOf(p)
        gi == DEG_group_cyclic_node_pair(World, G, I)
        ig == DEG_group_cyclic_node_pair(World, I, G)
    IN  /\ gi.result = G
        /\ ig.result = G
        /\ gi.w.graph = ig.w.graph
        /\ gi.w.rels = ig.w.rels
        /\ gi.w.dnode = ig.w.dnode

\* a Group and an ID node that has a child and a relation from the Group are about
\* to be merged, the ID node given first: the Group survives with the ID node's
\* identity, child and relation, as it does when the Group is given first
C19_Witness ==
  \E p \in GroupIdPairs, r \in RelIds, d \in DataNodes :
    LET G == p[2]
        I == p[1]
        ig == DEG_group_cyclic_node_pair(World, I, G)
    IN  /\ dnode[I].type = DEPSNODE_TYPE_OUTER_ID
        /\ dnode[I].subdata = <<d>>
        /\ rels[r].alloc /\ rels[r].from = G /\ rels[r].to = I
        /\ ig.result = G
        /\ ig.w.dnode[G].id_blocks = Append(dnode[G].id_blocks, dnode[I].id)
        /\ ig.w.dnode[d].owner = G
        /\ ig.w.rels[r].to = G
        /\ ig.w.dnode[I].st = "freed"
        /\ ig.w = DEG_group_cyclic_node_pair(World, G, I).w

\* the live outer nodes that were taken out of the graph and not freed
RemovedNodes ==
  {n \in NodeIds : dnode[n].st = "live" /\ IsOuter(dnode, n) /\ n \notin TopLevel}

\* C20: a second remove_from_graph call on a node that was already removed from
\* the graph is detected and reported as an error, and it does not alter
\* graph.nodes or nodehash.
C20_SecondRemoveGuarded ==
  /\ ret.op = "remove_again" => ret.outcome = "error"
  /\ status = "running" =>
       \A node \in RemovedNodes : DEG_remove_node(World, node).graph = graph

\* the pairs (dst, src) of distinct top-level outer nodes of one type
CopyPairs ==
  IF status = "running"
  THEN {p \in TopLevel \X TopLevel : p[1] # p[2] /\ dnode[p[1]].type = dnode[p[2]].type}
  ELSE {}

\* list `after` is list `before` followed by one new node per member of children,
\* in the order of children, each with the fields of the child it was made from
AppendedCopies(w1, after, before, children) ==
  /\ Len(after) = Len(before) + Len(children)
  /\ SubSeq(after, 1, Len(before)) = before
  /\ \A i \in 1..Len(children) :
       LET c == after[Len(before) + i]
       IN  /\ dnode[c].st = "unalloc"
           /\ w1.dnode[c] = dnode[children[i]]

\* C21: copy_data(dst, src) for an outer node appends to dst.subdata and dst.nodes
\* one copy per child of src, in src's order, and for a Group node duplicates
\* id_blocks in order; src, the children of src, graph.nodes, nodehash and every
\* relation are unchanged, and the copies have the link lists of the children they
\* were made from: no relation is re-linked to a copy.
C21_CopyData ==
  \A p \in CopyPairs :
    LET dst == p[1]
        src == p[2]
        w1 == copy_data(World, dst, src)
        made == (Range(w1.dnode[dst].subdata) \cup Range(w1.dnode[dst].nodes))
                  \ (Range(dnode[dst].subdata) \cup Range(dnode[dst].nodes))
    IN  /\ AppendedCopies(w1, w1.dnode[dst].subdata, dnode[dst].subdata, dnode[src].subdata)
        /\ AppendedCopies(w1, w1.dnode[dst].nodes, dnode[dst].nodes, dnode[src].nodes)
        /\ Cardinality(made) = Len(dnode[src].subdata) + Len(dnode[src].nodes)
        /\ dnode[src].type = DEPSNODE_TYPE_OUTER_GROUP
             => w1.dnode[dst].id_blocks = dnode[src].id_blocks
        /\ dnode[src].type = DEPSNODE_TYPE_OUTER_ID
             => w1.dnode[dst].id_blocks = dnode[dst].id_blocks
        /\ \A n \in NodeIds \ {dst} : dnode[n].st # "unalloc" => w1.dnode[n] = dnode[n]
        /\ w1.dnode[dst].inlinks = dnode[dst].inlinks
        /\ w1.dnode[dst].outlinks = dnode[dst].outlinks
        /\ w1.graph = graph
        /\ w1.rels = rels
        /\ \A c \in made, r \in RelIds : c \notin {w1.rels[r].from, w1.rels[r].to}

\* a Group made of two ID nodes holds a Data node and an inner node, and is copied
\* into the other Group: that Group gets a new node for each and the two identities
C21_Witness ==
  \E p \in CopyPairs, d \in DataNodes :
    LET dst == p[1]
        src == p[2]
        w1 == copy_data(World, dst, src)
    IN  /\ dnode[src].type = DEPSNODE_TYPE_OUTER_GROUP
        /\ dnode[src].subdata = <<d>>
        /\ Len(dnode[src].nodes) = 1
        /\ dnode[dst].id_blocks # dnode[src].id_blocks
        /\ Len(w1.dnode[dst].subdata) = 1 /\ w1.dnode[dst].subdata # <<d>>
        /\ Len(w1.dnode[dst].nodes) = 1 /\ w1.dnode[dst].nodes # dnode[src].nodes
        /\ w1.dnode[dst].id_blocks = dnode[src].id_blocks
        /\ w1.dnode[src] = dnode[src]

\* the node is out of graph.nodes and is the value of no nodehash entry
OutOfGraph(w, node) ==
  /\ node \notin Range(w.graph.nodes)
  /\ \A i \in 1..Len(w.graph.nodehash) : w.graph.nodehash[i][2] # node

\* C22 as stated: in the ID/ID merge the Group is added to graph.nodes first, and
\* only then are the two old ID nodes freed: whenever an old ID node is freed, the
\* Group is in graph.nodes.
C22_FreedAfterGroupAdded ==
  \A p \in IdIdPairs :
    LET steps == MergeIdIdSteps(World, p[1], p[2])
        group == FreshNode(World, DEPSNODE_TYPE_OUTER_GROUP)
    IN  \A k \in 1..Len(steps) :
          (steps[k].dnode[p[1]].st = "freed" \/ steps[k].dnode[p[2]].st = "freed")
            => group \in Range(steps[k].graph.nodes)

\* the order of the steps of an ID/ID merge of node1 and node2 into group
RemovedThenListedThenFreedThenAdded(steps, group, node1, node2) ==
  /\ \A k \in 1..Len(steps) :
       \* identities go into id_blocks after both removals
       /\ steps[k].dnode[group].id_blocks # <<>>
            => OutOfGraph(steps[k], node1) /\ OutOfGraph(steps[k], node2)
       \* the nodes are freed after both identities are in id_blocks
       /\ (steps[k].dnode[node1].st = "freed" \/ steps[k].dnode[node2].st = "freed")
            => Len(steps[k].dnode[group].id_blocks) = 2
       \* the Group is added after both nodes are freed
       /\ group \in Range(steps[k].graph.nodes)
            => /\ steps[k].dnode[node1].st = "freed"
               /\ steps[k].dnode[node2].st = "freed"
               /\ KeysOf(steps[k].graph.nodehash, group) = Range(steps[k].dnode[group].id_blocks)
  /\ \A k \in 1..(Len(steps) - 1) :
       \* putting an identity in id_blocks leaves nodehash as it is
       steps[k + 1].dnode[group].id_blocks # steps[k].dnode[group].id_blocks
         => steps[k + 1].graph = steps[k].graph

\* C22, amended: in the ID/ID merge both old ID nodes are removed from graph.nodes
\* and nodehash, then both identities are put in the Group's id_blocks without
\* touching nodehash, then the two old ID nodes are freed, and only then is the
\* Group added to graph.nodes, which indexes both identities.
C22_GroupAddedAfterFree ==
  \A p \in IdIdPairs :
    /\ MergeIdIdSteps(World, p[1], p[2])[10] = DEG_group_cyclic_node_pair(World, p[1], p[2]).w
    /\ RemovedThenListedThenFreedThenAdded(MergeIdIdSteps(World, p[1], p[2]),
                                           FreshNode(World, DEPSNODE_TYPE_OUTER_GROUP),
                                           p[1], p[2])

\* two ID nodes are about to be merged: there is a step at which both are freed and
\* the Group, with both identities in id_blocks, is not yet in the graph, and the
\* Group is in the graph at the end
C22_Witness ==
  \E p \in IdIdPairs :
    LET steps == MergeIdIdSteps(World, p[1], p[2])
        group == FreshNode(World, DEPSNODE_TYPE_OUTER_GROUP)
    IN  /\ \E k \in 1..Len(steps) :
             /\ steps[k].dnode[p[1]].st = "freed" /\ steps[k].dnode[p[2]].st = "freed"
             /\ Len(steps[k].dnode[group].id_blocks) = 2
             /\ group \notin Range(steps[k].graph.nodes)
             /\ ~BLI_ghash_haskey(steps[k].graph.nodehash, dnode[p[1]].id)
        /\ group \in Range(steps[Len(steps)].graph.nodes)

\* mutant: the lists are moved over before the endpoints and owners are rewritten
transfer_nodegraph_to_group_steps_move_first(w, group, src) ==
  LET s == w.dnode[src]
      m1 == [w EXCEPT !.dnode[group].inlinks = @ \o s.inlinks, !.dnode[src].inlinks = <<>>]
      m2 == [m1 EXCEPT !.dnode[group].outlinks = @ \o s.outlinks, !.dnode[src].outlinks = <<>>]
      m3 == [m2 EXCEPT !.dnode[group].subdata = @ \o s.subdata, !.dnode[src].subdata = <<>>]
      m4 == [m3 EXCEPT !.dnode[group].nodes = @ \o s.nodes, !.dnode[src].nodes = <<>>]
  IN  \* src's lists are empty by now: the four loops find nothing to rewrite
      <<m1, m2, m3, m4, m4, m4, m4, m4>>

\* transfer_nodegraph_to_group statement by statement: the state after each of its
\* four loops and each of its four BLI_movelisttolist calls
transfer_nodegraph_to_group_steps(w, group, src) ==
  LET s == w.dnode[src]
      r1 == [r \in RelIds |->
               IF r \in Range(s.inlinks) /\ w.rels[r].to = src
               THEN [w.rels[r] EXCEPT !.to = group] ELSE w.rels[r]]
      r2 == [r \in RelIds |->
               IF r \in Range(s.outlinks) /\ r1[r].from = src
               THEN [r1[r] EXCEPT !.from = group] ELSE r1[r]]
      d1 == [n \in NodeIds |->
               IF n \in Range(s.subdata)
               THEN [w.dnode[n] EXCEPT !.owner = group] ELSE w.dnode[n]]
      d2 == [n \in NodeIds |->
               IF n \in Range(s.nodes) /\ d1[n].owner = src
               THEN [d1[n] EXCEPT !.owner = group] ELSE d1[n]]
      w1 == [w EXCEPT !.rels = r1]
      w2 == [w1 EXCEPT !.rels = r2]
      w3 == [w2 EXCEPT !.dnode = d1]
      w4 == [w3 EXCEPT !.dnode = d2]
      w5 == [w4 EXCEPT !.dnode[group].inlinks = @ \o s.inlinks, !.dnode[src].inlinks = <<>>]
      w6 == [w5 EXCEPT !.dnode[group].outlinks = @ \o s.outlinks, !.dnode[src].outlinks = <<>>]
      w7 == [w6 EXCEPT !.dnode[group].subdata = @ \o s.subdata, !.dnode[src].subdata = <<>>]
      w8 == [w7 EXCEPT !.dnode[group].nodes = @ \o s.nodes, !.dnode[src].nodes = <<>>]
  IN  <<w1, w2, w3, w4, w5, w6, w7, w8>>

\* mutant: node2 keeps its id_blocks until it is removed
MergeGroupGroupSteps_ids_left(w, node1, node2) ==
  LET g2ids == w.dnode[node2].id_blocks
      RECURSIVE Redirect(_, _)
      Redirect(gh, ids) ==
        IF ids = <<>> THEN gh
        ELSE Redirect(BLI_ghash_insert(BLI_ghash_remove(gh, Head(ids)), Head(ids), node1),
                      Tail(ids))
      w1 == [w EXCEPT !.graph.nodehash = Redirect(@, g2ids)]
      w2 == [w1 EXCEPT !.dnode[node1].id_blocks = @ \o g2ids]
      w3 == transfer_nodegraph_to_group(w2, node1, node2)
      w4 == DEG_remove_node(w3, node2)
      w5 == DEG_free_node(w4, node2)
  IN  <<w1, w2, w3, w4, w5>>

\* the (Group, Group) branch statement by statement: the state after the nodehash
\* loop, after BLI_movelisttolist of id_blocks, and after each of its three calls
MergeGroupGroupSteps(w, node1, node2) ==
  LET g2ids == w.dnode[node2].id_blocks
      RECURSIVE Redirect(_, _)
      Redirect(gh, ids) ==
        IF ids = <<>> THEN gh
        ELSE Redirect(BLI_ghash_insert(BLI_ghash_remove(gh, Head(ids)), Head(ids), node1),
                      Tail(ids))
      w1 == [w EXCEPT !.graph.nodehash = Redirect(@, g2ids)]
      w2 == [w1 EXCEPT !.dnode[node1].id_blocks = @ \o g2ids,
                       !.dnode[node2].id_blocks = <<>>]
      w3 == transfer_nodegraph_to_group(w2, node1, node2)
      w4 == DEG_remove_node(w3, node2)
      w5 == DEG_free_node(w4, node2)
  IN  <<w1, w2, w3, w4, w5>>

\* the calls of transfer_nodegraph_to_group that merging node1 and node2 makes:
\* the state each call starts from, its group and its src
TransferCalls(w, node1, node2) ==
  LET t1 == w.dnode[node1].type
      t2 == w.dnode[node2].type
  IN  IF t1 = DEPSNODE_TYPE_OUTER_ID /\ t2 = DEPSNODE_TYPE_OUTER_ID
        THEN {<<MergeIdIdSteps(w, node1, node2)[1],
                FreshNode(w, DEPSNODE_TYPE_OUTER_GROUP), node1>>,
              <<MergeIdIdSteps(w, node1, node2)[2],
                FreshNode(w, DEPSNODE_TYPE_OUTER_GROUP), node2>>}
      ELSE IF t1 = DEPSNODE_TYPE_OUTER_GROUP /\ t2 = DEPSNODE_TYPE_OUTER_GROUP
        THEN {<<MergeGroupGroupSteps(w, node1, node2)[2], node1, node2>>}
      ELSE IF t1 = DEPSNODE_TYPE_OUTER_GROUP
        THEN {<<w, node1, node2>>}
      ELSE {<<w, node2, node1>>}

\* every transfer that a merge of two top-level nodes of the current state makes
AllTransferCalls == UNION {TransferCalls(World, p[1], p[2]) : p \in MergePairs}

\* the relations in src's inlinks end at src and those in its outlinks start at src
EndpointsAtSrc(w, src) ==
  /\ \A r \in Range(w.dnode[src].inlinks) : w.rels[r].to = src
  /\ \A r \in Range(w.dnode[src].outlinks) : w.rels[r].from = src

\* no relation in group's inlinks ends at src, none in its outlinks starts at src
NoEndpointAtSrc(w, group, src) ==
  /\ \A r \in Range(w.dnode[group].inlinks) : w.rels[r].to # src
  /\ \A r \in Range(w.dnode[group].outlinks) : w.rels[r].from # src

NoEndpointAtSrcEver(steps, group, src) ==
  \A k \in 1..Len(steps) : NoEndpointAtSrc(steps[k], group, src)

\* C23: in transfer_nodegraph_to_group the endpoints are rewritten before the lists
\* are concatenated: provided every relation in src's inlinks has `to` = src and
\* every relation in its outlinks has `from` = src, after every statement of the
\* transfer the Group's inlinks holds no relation whose `to` is src and its outlinks
\* holds no relation whose `from` is src.
C23_RewriteBeforeConcatenate ==
  \A c \in AllTransferCalls :
    /\ transfer_nodegraph_to_group_steps(c[1], c[2], c[3])[8]
         = transfer_nodegraph_to_group(c[1], c[2], c[3])
    /\ EndpointsAtSrc(c[1], c[3])
         => NoEndpointAtSrcEver(transfer_nodegraph_to_group_steps(c[1], c[2], c[3]),
                                c[2], c[3])

\* a transfer is about to move a relation that ends at src and one that starts at
\* src into the Group's lists, and after it the Group's lists hold them
C23_Witness ==
  \E c \in AllTransferCalls :
    /\ EndpointsAtSrc(c[1], c[3])
    /\ c[1].dnode[c[3]].inlinks # <<>>
    /\ c[1].dnode[c[3]].outlinks # <<>>
    /\ LET w8 == transfer_nodegraph_to_group_steps(c[1], c[2], c[3])[8]
       IN  /\ \E r \in Range(w8.dnode[c[2]].inlinks) : r \in Range(c[1].dnode[c[3]].inlinks)
           /\ \E r \in Range(w8.dnode[c[2]].outlinks) : r \in Range(c[1].dnode[c[3]].outlinks)

\* each of the four lists of dst in `after` is dst's list in `before` followed by
\* the lists of the nodes srcs, in their order
RECURSIVE ListsOf(_, _, _)
ListsOf(w, srcs, field) ==
  IF srcs = <<>> THEN <<>>
  ELSE w.dnode[Head(srcs)][field] \o ListsOf(w, Tail(srcs), field)

Concatenated(before, after, dst, srcs) ==
  \A field \in {"inlinks", "outlinks", "subdata", "nodes"} :
    after.dnode[dst][field] = before.dnode[dst][field] \o ListsOf(before, srcs, field)

\* no node but group and no relation is created between `before` and `after`
NothingCreatedBut(before, after, group) ==
  /\ before.dnode[group].st = "unalloc"
  /\ \A n \in NodeIds \ {group} : before.dnode[n].st = "unalloc" => after.dnode[n].st = "unalloc"
  /\ \A r \in RelIds : after.rels[r].alloc = before.rels[r].alloc

\* the Group that the ID/ID merge with outcome m made holds the elements of node1
\* followed by those of node2, and the merge made no node or relation but the Group
SameObjectsInOrder(before, m, node1, node2) ==
  /\ NothingCreatedBut(before, m.w, m.result)
  /\ Concatenated(before, m.w, m.result, <<node1, node2>>)

\* C24: a transfer from src to a Group leaves each of the Group's inlinks, outlinks,
\* subdata and nodes equal to its previous content followed by src's content in
\* src's order; after an ID/ID merge of (A, B) the Group's four lists are A's
\* elements followed by B's, the very nodes and relations that A and B held.
C24_TransferConcatenates ==
  /\ \A c \in AllTransferCalls :
       Concatenated(c[1], transfer_nodegraph_to_group(c[1], c[2], c[3]), c[2], <<c[3]>>)
  /\ \A p \in IdIdPairs :
       SameObjectsInOrder(World, DEG_group_cyclic_node_pair(World, p[1], p[2]), p[1], p[2])

\* two ID nodes with an inner node each are about to be merged, the first one
\* holding the inner node that was created later: the Group's nodes list holds the
\* two in the order of the merge, which is not the order of their creation
C24_Witness ==
  \E p \in IdIdPairs :
    /\ Len(dnode[p[1]].nodes) = 1 /\ Len(dnode[p[2]].nodes) = 1
    /\ dnode[p[1]].nodes[1] > dnode[p[2]].nodes[1]
    /\ LET m == DEG_group_cyclic_node_pair(World, p[1], p[2])
       IN  m.w.dnode[m.result].nodes = <<dnode[p[1]].nodes[1], dnode[p[2]].nodes[1]>>

\* the relations that run from one node of the pair to the other
RelationsBetween(w, node1, node2) ==
  {r \in RelIds : /\ w.rels[r].alloc
                  /\ \/ w.rels[r].from = node1 /\ w.rels[r].to = node2
                     \/ w.rels[r].from = node2 /\ w.rels[r].to = node1}

\* the relation runs from node to node and is in both of node's link lists
InternalTo(w, r, node) ==
  /\ w.rels[r].from = node
  /\ w.rels[r].to = node
  /\ r \in Range(w.dnode[node].inlinks)
  /\ r \in Range(w.dnode[node].outlinks)

\* the relations between node1 and node2 after their merge with outcome m
MadeInternal(before, m, node1, node2) ==
  /\ \A r \in RelationsBetween(before, node1, node2) : InternalTo(m.w, r, m.result)
  /\ RelationsBetween(m.w, node1, node2) = {}

\* C25: a relation that ran from A to B or from B to A is, after the merge of the
\* two, a relation from the survivor to the survivor and is in both the survivor's
\* inlinks and its outlinks; no relation of the pair joins two distinct nodes any
\* more.
C25_CycleBecomesInternal ==
  \A p \in MergePairs :
    MadeInternal(World, DEG_group_cyclic_node_pair(World, p[1], p[2]), p[1], p[2])

\* a relation runs from the second node of a pair to the first, the second being
\* the one that goes away: after the merge it runs from the survivor to itself
C25_Witness ==
  \E p \in GroupIdPairs :
    \E r \in RelIds :
      /\ rels[r].alloc /\ rels[r].from = IdOf(p) /\ rels[r].to = GroupOf(p)
      /\ InternalTo(DEG_group_cyclic_node_pair(World, p[1], p[2]).w, r, GroupOf(p))

\* the owners that the transfer from src to group leaves behind
ReparentedSelectively(before, after, group, src) ==
  /\ \A n \in Range(before.dnode[src].subdata) : after.dnode[n].owner = group
  /\ \A n \in Range(before.dnode[src].nodes) :
       /\ n \in Range(after.dnode[group].nodes)
       /\ after.dnode[n].owner = IF before.dnode[n].owner = src
                                   THEN group ELSE before.dnode[n].owner

\* C26: the transfer from src to a Group gives every child in src.subdata the Group
\* for owner; a child in src.nodes gets the Group for owner only if its owner was
\* src, and one whose owner was another node (a subdata node) keeps that owner,
\* while it is moved into the Group's nodes list all the same.
C26_SelectiveReparent ==
  \A c \in AllTransferCalls :
    ReparentedSelectively(c[1], transfer_nodegraph_to_group(c[1], c[2], c[3]), c[2], c[3])

\* a transfer is about to move an inner node that a subdata node of src owns: the
\* subdata node gets the Group for owner and the inner node keeps the subdata node
C26_Witness ==
  \E c \in AllTransferCalls :
    \E n \in Range(c[1].dnode[c[3]].nodes) :
      /\ c[1].dnode[n].owner \in Range(c[1].dnode[c[3]].subdata)
      /\ LET after == transfer_nodegraph_to_group(c[1], c[2], c[3])
         IN  /\ after.dnode[n].owner = c[1].dnode[n].owner
             /\ after.dnode[after.dnode[n].owner].owner = c[2]
             /\ n \in Range(after.dnode[c[2]].nodes)

\* the four lists of the node are empty
Detached(w, node) ==
  /\ w.dnode[node].inlinks = <<>>
  /\ w.dnode[node].outlinks = <<>>
  /\ w.dnode[node].subdata = <<>>
  /\ w.dnode[node].nodes = <<>>

\* the children and the relations that node holds in `before` are as allocated in
\* `after` as they were
ContentsNotFreed(before, after, node) ==
  /\ \A n \in Range(before.dnode[node].subdata) \cup Range(before.dnode[node].nodes) :
       after.dnode[n].st = before.dnode[n].st
  /\ \A r \in Range(before.dnode[node].inlinks) \cup Range(before.dnode[node].outlinks) :
       after.rels[r].alloc

\* the nodes that the merge of node1 and node2 with outcome m frees
FreedByMerge(m, node1, node2) ==
  {n \in {node1, node2} : m.w.dnode[n].st = "freed"}

\* the nodes that the merge frees have empty lists, and what they held is not freed
FreedDetached(before, m, node1, node2) ==
  \A n \in FreedByMerge(m, node1, node2) :
    Detached(m.w, n) /\ ContentsNotFreed(before, m.w, n)

\* C27: after transfer_nodegraph_to_group the source's inlinks, outlinks, subdata
\* and nodes are all empty, so the source holds no child and no relation when it is
\* removed and freed, and none of them is freed with it.
C27_SourceDetached ==
  /\ \A c \in AllTransferCalls :
       Detached(transfer_nodegraph_to_group(c[1], c[2], c[3]), c[3])
  /\ \A p \in MergePairs :
       FreedDetached(World, DEG_group_cyclic_node_pair(World, p[1], p[2]), p[1], p[2])

\* a node that holds a relation, a Data node and an inner node is about to be
\* merged away: it is freed with empty lists and the three are still allocated
C27_Witness ==
  \E p \in MergePairs :
    \E n \in FreedByMerge(DEG_group_cyclic_node_pair(World, p[1], p[2]), p[1], p[2]) :
      /\ dnode[n].inlinks # <<>> /\ dnode[n].outlinks # <<>>
      /\ dnode[n].subdata # <<>> /\ dnode[n].nodes # <<>>
      /\ Detached(DEG_group_cyclic_node_pair(World, p[1], p[2]).w, n)
      /\ ContentsNotFreed(World, DEG_group_cyclic_node_pair(World, p[1], p[2]).w, n)

\* every identity of ids is indexed to node
AllMapTo(w, ids, node) ==
  \A i \in 1..Len(ids) : BLI_ghash_lookup(w.graph.nodehash, ids[i]) = node

\* the steps of a Group/Group merge of A and B, ids being B's id_blocks before it:
\* B has no id_blocks left when it is removed, the removal leaves nodehash as it
\* is, and the identities map to A after the removal and after the free
RemovedWithNoIdentityLeft(steps, A, B, ids) ==
  /\ steps[3].dnode[B].id_blocks = <<>>
  /\ B \in Range(steps[3].graph.nodes)
  /\ B \notin Range(steps[4].graph.nodes)
  /\ steps[4].graph.nodehash = steps[3].graph.nodehash
  /\ AllMapTo(steps[4], ids, A)
  /\ steps[5].dnode[B].st = "freed"
  /\ AllMapTo(steps[5], ids, A)

\* C28: in the Group/Group merge of A and B, B's id_blocks has been moved to A by
\* the time B is removed from the graph, so the removal erases no nodehash entry:
\* every identity that was B's maps to A after DEG_remove_node and after B is
\* freed.
C28_RemovalErasesNoIdentity ==
  \A p \in GroupGroupPairs :
    /\ MergeGroupGroupSteps(World, p[1], p[2])[5]
         = DEG_group_cyclic_node_pair(World, p[1], p[2]).w
    /\ RemovedWithNoIdentityLeft(MergeGroupGroupSteps(World, p[1], p[2]), p[1], p[2],
                                 dnode[p[2]].id_blocks)

\* two Groups of two identities each are about to be merged: B's identities map
\* to B before the merge and to A after B is removed
C28_Witness ==
  \E p \in GroupGroupPairs :
    /\ Len(dnode[p[2]].id_blocks) = 2
    /\ AllMapTo(World, dnode[p[2]].id_blocks, p[2])
    /\ AllMapTo(MergeGroupGroupSteps(World, p[1], p[2])[4], dnode[p[2]].id_blocks, p[1])
    /\ p[2] \notin Range(MergeGroupGroupSteps(World, p[1], p[2])[4].graph.nodes)

\* the identities that nodehash indexes
HashKeys(gh) == {gh[i][1] : i \in 1..Len(gh)}

\* graph.nodes after a merge of node1 and node2 that returned result: in the
\* ID/ID case the two nodes are unlinked and the new Group is the tail, otherwise
\* the node that is not the survivor is unlinked and nothing else moves
NodesAfterMerge(before, after, node1, node2, result) ==
  IF result \in {node1, node2}
  THEN after.graph.nodes
         = BLI_remlink(before.graph.nodes, CHOOSE n \in {node1, node2} : n # result)
  ELSE after.graph.nodes
         = BLI_addtail(BLI_remlink(BLI_remlink(before.graph.nodes, node1), node2), result)

\* what a merge of node1 and node2 with outcome m does to graph.nodes and to the
\* keys of nodehash: one node less, the same keys, and a new node only when both
\* are ID nodes
ShrunkByOne(before, m, node1, node2) ==
  /\ Len(m.w.graph.nodes) = Len(before.graph.nodes) - 1
  /\ HashKeys(m.w.graph.nodehash) = HashKeys(before.graph.nodehash)
  /\ (m.result \notin {node1, node2})
       = (/\ before.dnode[node1].type = DEPSNODE_TYPE_OUTER_ID
          /\ before.dnode[node2].type = DEPSNODE_TYPE_OUTER_ID)
  /\ NodesAfterMerge(before, m.w, node1, node2, m.result)

\* C29: every merge of two distinct live top-level nodes makes graph.nodes one
\* shorter and leaves the set of nodehash keys as it was; in the Group/Group and
\* Group/ID cases the survivor keeps its place in graph.nodes (the other node is
\* unlinked, nothing is relinked), and in the ID/ID case the new Group is appended
\* at the tail.
C29_MergeShrinksByOne ==
  \A p \in MergePairs :
    ShrunkByOne(World, DEG_group_cyclic_node_pair(World, p[1], p[2]), p[1], p[2])

\* a Group that stands between two ID nodes in graph.nodes is about to be merged
\* with the first of them, and the two ID nodes with each other: the Group stays
\* ahead of the last node, and the new Group of the two ID nodes comes after the
\* old one
C29_Witness ==
  /\ Len(graph.nodes) = 3
  /\ dnode[graph.nodes[1]].type = DEPSNODE_TYPE_OUTER_ID
  /\ dnode[graph.nodes[2]].type = DEPSNODE_TYPE_OUTER_GROUP
  /\ dnode[graph.nodes[3]].type = DEPSNODE_TYPE_OUTER_ID
  /\ CanMerge
  /\ DEG_group_cyclic_node_pair(World, graph.nodes[1], graph.nodes[2]).w.graph.nodes
       = <<graph.nodes[2], graph.nodes[3]>>
  /\ Len(DEG_group_cyclic_node_pair(World, graph.nodes[1], graph.nodes[3]).w.graph.nodes) = 2
  /\ DEG_group_cyclic_node_pair(World, graph.nodes[1], graph.nodes[3]).w.graph.nodes[1]
       = graph.nodes[2]
  /\ HashKeys(graph.nodehash)
       = HashKeys(DEG_group_cyclic_node_pair(World, graph.nodes[1], graph.nodes[3]).w.graph.nodehash)
  /\ Cardinality(HashKeys(graph.nodehash)) = 4

\* the globbing that the comment above clg_ctx_filter_check documents: `*` matches
\* everything, `foo.*` matches `foo` and whatever starts with `foo.`, anything else
\* matches itself only
Globs(match, identifier) ==
  \/ match = Str_star
  \/ match = identifier
  \/ /\ Len(match) >= 2
     /\ SubSeq(match, Len(match) - 1, Len(match)) = <<".", "*">>
     /\ LET stem == SubSeq(match, 1, Len(match) - 2)
        IN  \/ identifier = stem
            \/ /\ Len(identifier) > Len(stem)
               /\ SubSeq(identifier, 1, Len(stem) + 1) = stem \o <<".">>

\* type_match is the only filter of the context, and it is an include filter
OnlyIncludes(c, type_match) == c.filters[0] = <<>> /\ c.filters[1] = <<type_match>>

\* some filter of the context's list i globs the identifier
SomeGlobs(c, i, identifier) ==
  \E k \in 1..Len(c.filters[i]) : Globs(c.filters[i][k], identifier)

\* C30: the log-type filter check follows the documented globbing: a filter `foo`
\* matches only the identifier `foo`; `foo.*` matches `foo`, `foo.bar` and
\* `foo.bar.baz` but not `foobar`; `*` matches every identifier; and an identifier
\* that no filter matches is not enabled (the check says no, and a log type
\* registered then does not get CLG_FLAG_USE).
C30_FilterGlobbing ==
  /\ OnlyIncludes(ctx, Str_foo)
       => \A id \in Identifiers : clg_ctx_filter_check(ctx, id) = (id = Str_foo)
  /\ OnlyIncludes(ctx, Str_foo_glob)
       => /\ clg_ctx_filter_check(ctx, Str_foo)
          /\ clg_ctx_filter_check(ctx, Str_foo_bar)
          /\ clg_ctx_filter_check(ctx, Str_foo_bar_baz)
          /\ ~clg_ctx_filter_check(ctx, Str_foobar)
  /\ OnlyIncludes(ctx, Str_star)
       => \A id \in Identifiers : clg_ctx_filter_check(ctx, id)
  /\ \A id \in Identifiers :
       /\ ctx.filters[0] = <<>> => clg_ctx_filter_check(ctx, id) = SomeGlobs(ctx, 1, id)
       /\ ~SomeGlobs(ctx, 0, id) /\ ~SomeGlobs(ctx, 1, id)
            => /\ ~clg_ctx_filter_check(ctx, id)
               /\ clg_ctx_type_find_by_name(ctx, id) = <<>>
                    => CLG_logref_init(ctx, id).types[1].flag = {}

\* `foo.*` is the only filter, and of the two log types registered under it
\* `foo.bar` is in use and `foobar` is not
C30_Witness ==
  /\ OnlyIncludes(ctx, Str_foo_glob)
  /\ \E i, j \in 1..Len(ctx.types) :
       /\ ctx.types[i].identifier = Str_foo_bar /\ ctx.types[i].flag = {CLG_FLAG_USE}
       /\ ctx.types[j].identifier = Str_foobar /\ ctx.types[j].flag = {}

\* the identifier is not enabled in the context: the check says no, and a log type
\* registered now does not get CLG_FLAG_USE
NotEnabled(c, identifier) ==
  /\ ~clg_ctx_filter_check(c, identifier)
  /\ clg_ctx_type_find_by_name(c, identifier) = <<>>
       => CLG_logref_init(c, identifier).types[1].flag = {}

\* C31: exclude filters take precedence over include filters: an identifier that
\* some exclude filter matches is not enabled even when an include filter (`*`
\* included) matches it too, whichever of the two filters was appended first.
C31_ExcludeTakesPrecedence ==
  \A id \in Identifiers :
    /\ SomeGlobs(ctx, 0, id) => NotEnabled(ctx, id)
    /\ \A ex, inc \in TypeMatches :
         Globs(ex, id) /\ ex # Str_empty
           => /\ NotEnabled(CLG_ctx_type_filter_include(
                              CLG_ctx_type_filter_exclude(ctx, ex), inc), id)
              /\ NotEnabled(CLG_ctx_type_filter_exclude(
                              CLG_ctx_type_filter_include(ctx, inc), ex), id)

\* `*` is included and `foo.*` is excluded: of the two log types registered since,
\* `foo.bar` is not in use and `bar` is
C31_Witness ==
  /\ ctx.filters[1] = <<Str_star>>
  /\ ctx.filters[0] = <<Str_foo_glob>>
  /\ SomeGlobs(ctx, 1, Str_foo_bar)
  /\ \E i, j \in 1..Len(ctx.types) :
       /\ ctx.types[i].identifier = Str_foo_bar /\ ctx.types[i].flag = {}
       /\ ctx.types[j].identifier = Str_bar /\ ctx.types[j].flag = {CLG_FLAG_USE}

\* no two log types of the context have the same identifier
TypesDistinct(c) ==
  \A i, j \in 1..Len(c.types) : c.types[i].identifier = c.types[j].identifier => i = j

\* the log type at that address
TypeAt(c, addr) == CHOOSE ty \in Range(c.types) : ty.addr = addr

\* CLG_logref_init is about to return to a thread only when the reference has a
\* type; the type of a reference is a log type of the context with the reference's
\* identifier; references of one identifier have one type
RefsInitialized ==
  /\ \A t \in Threads : thread[t].pc = "unlock" => clg_ref[thread[t].ref].type # Null
  /\ \A r \in LogRefs :
       clg_ref[r].type # Null
         => /\ \E ty \in Range(ctx.types) : ty.addr = clg_ref[r].type
            /\ TypeAt(ctx, clg_ref[r].type).identifier = clg_ref[r].identifier
  /\ \A r1, r2 \in LogRefs :
       /\ clg_ref[r1].type # Null /\ clg_ref[r2].type # Null
       /\ clg_ref[r1].identifier = clg_ref[r2].identifier
       => clg_ref[r1].type = clg_ref[r2].type

\* the references that CLG_logref_init has been at work on so far all have an
\* identifier that fits the buffer of a log type
FitsSoFar ==
  \A r \in LogRefs :
    Len(clg_ref[r].identifier) >= IdentifierSize
      => /\ clg_ref[r].type = Null
         /\ \A t \in Threads : thread[t].ref = r => thread[t].pc = "lock"

TypesFollowDefault(c) ==
  \A i \in 1..Len(c.types) :
    /\ c.types[i].level = c.default_type.level
    /\ c.types[i].severity_level = c.default_type.severity_level

\* C33: after any sequence of CLG_level_set, CLG_severity_level_set and log type
\* registrations every registered log type's level and severity_level equal the
\* context's current default_type.level and default_type.severity_level; a level
\* set next is the level of every type that exists, and a type registered next has
\* the defaults of that moment.
C33_TypesFollowDefault ==
  /\ TypesFollowDefault(ctx)
  /\ \A level \in Levels :
       LET c == CLG_ctx_level_set(ctx, level)
       IN  /\ c.default_type.level = level
           /\ \A i \in 1..Len(c.types) : c.types[i].level = level
  /\ \A level \in Severities :
       LET c == CLG_ctx_severity_level_set(ctx, level)
       IN  /\ c.default_type.severity_level = level
           /\ \A i \in 1..Len(c.types) : c.types[i].severity_level = level
  /\ \A identifier \in Identifiers :
       clg_ctx_type_find_by_name(ctx, identifier) = <<>>
         => LET c == clg_ctx_type_register(ctx, identifier)
            IN  /\ c.types[1].level = ctx.default_type.level
                /\ c.types[1].severity_level = ctx.default_type.severity_level

\* a type was registered, then a level and a severity level other than the defaults
\* of CLG_ctx_init were set, then another type was registered
C33_Witness ==
  /\ Len(ctx.types) = 2
  /\ ctx.default_type.level # CLG_DEFAULT_LEVEL
  /\ ctx.default_type.severity_level # CLG_DEFAULT_SEVERITY
  /\ nops = 4
  /\ TypesFollowDefault(ctx)

\* the library could not create a context, or the context found no device
NothingToOpen(s) == ~s.ctx_created \/ s.num_devices = 0

\* C34: from the end of construction until destruction m_available is true if and
\* only if m_context is non-null; when the context cannot be created or no device
\* is probed, m_available is false, m_context and m_device are null and
\* m_deviceIndex is -1, and no later operation makes the manager available.
C34_AvailableIffContext ==
  /\ sys.alive => (hmd.m_available <=> hmd.m_context # Null)
  /\ NothingToOpen(sys)
       => /\ ~hmd.m_available
          /\ hmd.m_context = Null
          /\ hmd.m_device = Null
          /\ hmd.m_deviceIndex = 0 - 1

\* a context was created and found no device; setDevice and processEvents have
\* been called on the manager since
C34_Witness ==
  /\ sys.ctx_created /\ sys.num_devices = 0
  /\ sys.alive
  /\ nops >= 2
  /\ sys.ret.op = "processEvents"
  /\ ~hmd.m_available

\* the index is one of a probed device
InBounds(s, index) == index \in 0..(ohmd_ctx_probe(s) - 1)

\* C35: setDevice(index) returns true and switches m_deviceIndex and m_device only
\* when the manager is available and 0 <= index < number of probed devices; for an
\* unavailable manager or an out-of-bounds index (negative, or >= the device count)
\* it returns false and leaves m_deviceIndex and m_device unchanged, so
\* m_deviceIndex is always a valid device index while the manager is available.
C35_SetDeviceInBounds ==
  /\ \A index \in Indices, opened \in BOOLEAN :
       LET r == setDevice(hmd, sys, index, opened)
       IN  /\ r.sys.ret.val => hmd.m_available /\ InBounds(sys, index)
           /\ r.sys.ret.val => r.hmd.m_deviceIndex = index
           /\ ~(hmd.m_available /\ InBounds(sys, index))
                => /\ ~r.sys.ret.val
                   /\ r.hmd.m_deviceIndex = hmd.m_deviceIndex
                   /\ r.hmd.m_device = hmd.m_device
  /\ hmd.m_available => InBounds(sys, hmd.m_deviceIndex)

\* the events that were created and that the system does not hold
Unowned(s) == s.allocated \ Range(s.events)

\* C36: processEvents returns true and pushes exactly one event to the system if
\* and only if the manager is available, an active window exists and the rotation
\* read succeeds; in every other case it returns false, pushes no event, and
\* leaves no created event object unowned.
C36_EventPushedOrReleased ==
  \A getf \in ohmd_device_getf(hmd.m_device) :
    LET r == processEvents(hmd, sys, getf)
        read == hmd.m_available /\ sys.window # Null /\ getf = "ok"
    IN  r.status = "running"
          => /\ r.sys.ret.val <=> read
             /\ read => Len(r.sys.events) = Len(sys.events) + 1
             /\ ~read => r.sys.events = sys.events
             /\ Unowned(r.sys) \subseteq Unowned(sys)

====
